---- MODULE Spec2Model ----
(***************************************************************************)
(* Model of src/scheduler.js: the task scheduler of ideav/orbits_vue.      *)
(*                                                                         *)
(* Timestamps (JS Date, local time) are integers: minutes since            *)
(* 01.01.2025 00:00; InvalidDate stands for a Date whose time value is     *)
(* NaN.  Text values of the reports (JSON_KV rows hold                     *)
(* strings) are sequences of one-character strings, so that the parsers    *)
(* of the source are modelled by what they do.                             *)
(***************************************************************************)
EXTENDS Integers, Sequences, FiniteSets, TLC

VARIABLES
    pc,                  \* position inside scheduleTasks
    projectData,         \* rows of report 2681, once fetched
    settings,            \* rows of report 3283, once fetched
    parameterDictionary, \* rows of report 3248, once fetched
    executors,           \* rows of report 2777, once fetched
    settingsMap,         \* settings by code, after parseInt
    templateProject,     \* rows whose status is not "in work"
    workingProject,      \* rows whose status is "in work" (normatives written back)
    idx,                 \* position of the normative loop over workingProject
    taskGroups,          \* groups built from workingProject
    orderedTasks,        \* the produced chain order
    currentTask,         \* chain loop: index into taskGroups, 0 when undefined
    gi,                  \* scheduling loop: position in orderedTasks
    ii,                  \* scheduling loop: position in the group's items
    currentTime,         \* the global time cursor
    assignments,         \* assignments created so far
    saved,               \* saveData requests issued (only when DEBUG is false)
    logged,              \* log() lines that matter: would-save, warnings, skips
    server,              \* which family of reports the server answers with
    contentDiv,          \* the page has an element that matches .content
    thrown,              \* what fetchData has thrown at the await, <<>> when nothing
    content,             \* what the .content element shows
    errors,              \* console.error lines
    call,                \* harness for the pure functions: the arguments
    result               \* harness for the pure functions: the returned value

vars == <<pc, projectData, settings, parameterDictionary, executors, settingsMap,
          templateProject, workingProject, idx, taskGroups, orderedTasks,
          currentTask, gi, ii, currentTime, assignments, saved, logged,
          server, contentDiv, thrown, content, errors, call, result>>

runVars == <<pc, projectData, settings, parameterDictionary, executors, settingsMap,
             templateProject, workingProject, idx, taskGroups, orderedTasks,
             currentTask, gi, ii, currentTime, assignments, saved, logged,
             server, contentDiv, thrown, content, errors>>

(***************************************************************************)
(* Bounds of the model.                                                    *)
(***************************************************************************)
MaxIter == 12        \* rounds of the calculateEndTime loop the claims about its end follow
MaxDurSteps == 34    \* durations tried by the calculateEndTime harness, in half hours
MaxOrder == 4        \* task groups the chain loop appends before the model stops following it
MaxTemplate == 2     \* rows of the template in the runs that resolve normatives
MaxRequired == 3     \* largest required number of executors in the runs that match
MaxReqs == 2         \* requirements in a constraint string of the matcher harness
MaxSlots == 2        \* occupied slots, and assignments, of the availability harness

(***************************************************************************)
(* JavaScript values.                                                      *)
(*                                                                         *)
(* A number read from a text (parseInt, parseFloat) and what is computed   *)
(* from it is NaN or a decimal number kept in thousandths: NaN is <<>>,    *)
(* 1.5 is <<1500>>, 9 is <<9000>>.  The texts of the runs have at most     *)
(* three decimals and are multiplied by whole numbers only, so that the    *)
(* thousandths are exact; decimals past the third would be cut, and the    *)
(* rounding of binary floating point (0.1 * 3) is not represented.         *)
(* Timestamps, hours of a valid Date and positions are integers.           *)
(***************************************************************************)
Scale == 1000
NaN == <<>>
Num(n) == <<n * Scale>>
Zero == Num(0)

\* a < b, a <= b, a > b, a >= b, a === b: false when either side is NaN
lt(a, b) == a # NaN /\ b # NaN /\ a[1] < b[1]
le(a, b) == a # NaN /\ b # NaN /\ a[1] <= b[1]
gt(a, b) == a # NaN /\ b # NaN /\ a[1] > b[1]
ge(a, b) == a # NaN /\ b # NaN /\ a[1] >= b[1]
strictEquals(a, b) == a # NaN /\ b # NaN /\ a[1] = b[1]

\* a + b, a - b
plus(a, b) == IF a = NaN \/ b = NaN THEN NaN ELSE <<a[1] + b[1]>>
minus(a, b) == IF a = NaN \/ b = NaN THEN NaN ELSE <<a[1] - b[1]>>

\* the integer part of a number that is not NaN (ToIntegerOrInfinity)
truncate(x) == IF x[1] >= 0 THEN x[1] \div Scale ELSE -((-x[1]) \div Scale)

\* Math.ceil
ceil(x) == IF x = NaN THEN NaN ELSE Num(-((-x[1]) \div Scale))

Min(a, b) == IF a <= b THEN a ELSE b
Max(a, b) == IF a >= b THEN a ELSE b

\* a text value is truthy iff it is not empty (and not absent)
Truthy(s) == s # <<>>

\* x || d for a number x of the settings, which parseInt has made whole
OrDefault(x, d) == IF x = NaN \/ x = Zero THEN d ELSE truncate(x)

(***************************************************************************)
(* Text: a string is a sequence of one-character strings.                  *)
(***************************************************************************)
Digits == <<"0", "1", "2", "3", "4", "5", "6", "7", "8", "9">>
IsDigit(c) == \E i \in 1..Len(Digits) : Digits[i] = c
DigitValue(c) == (CHOOSE i \in 1..Len(Digits) : Digits[i] = c) - 1

\* digits of a natural number, as String(n) writes them
RECURSIVE NatToString(_)
NatToString(n) ==
    IF n < 10 THEN <<Digits[n + 1]>>
    ELSE NatToString(n \div 10) \o <<Digits[(n % 10) + 1]>>

\* the decimals of f thousandths, without the zeros at the end
RECURSIVE StripZeros(_)
StripZeros(ds) ==
    IF ds # <<>> /\ ds[Len(ds)] = "0" THEN StripZeros(SubSeq(ds, 1, Len(ds) - 1)) ELSE ds
fractionDigits(f) ==
    StripZeros(<<Digits[(f \div 100) + 1], Digits[((f \div 10) % 10) + 1],
                 Digits[(f % 10) + 1]>>)

\* Number.prototype.toString, and the number inside a template literal
magnitudeToString(m) ==
    NatToString(m \div Scale)
      \o (IF m % Scale = 0 THEN <<>> ELSE <<".">> \o fractionDigits(m % Scale))
numberToString(x) ==
    IF x = NaN THEN <<"N", "a", "N">>
    ELSE IF x[1] < 0 THEN <<"-">> \o magnitudeToString(-x[1])
    ELSE magnitudeToString(x[1])

\* String(n).padStart(2, '0')
PadStart2(n) == IF Len(NatToString(n)) < 2 THEN <<"0">> \o NatToString(n) ELSE NatToString(n)

\* length of the run of digits of s that starts at position p
RECURSIVE DigitRun(_, _)
DigitRun(s, p) ==
    IF p > Len(s) \/ ~IsDigit(s[p]) THEN 0 ELSE 1 + DigitRun(s, p + 1)

\* value of a sequence of digits
RECURSIVE DigitsValue(_)
DigitsValue(s) ==
    IF s = <<>> THEN 0
    ELSE DigitsValue(SubSeq(s, 1, Len(s) - 1)) * 10 + DigitValue(s[Len(s)])

\* String.prototype.trim, on blanks
RECURSIVE TrimLeft(_)
TrimLeft(s) == IF s # <<>> /\ Head(s) = " " THEN TrimLeft(Tail(s)) ELSE s
RECURSIVE TrimRight(_)
TrimRight(s) ==
    IF s # <<>> /\ s[Len(s)] = " " THEN TrimRight(SubSeq(s, 1, Len(s) - 1)) ELSE s
Trim(s) == TrimRight(TrimLeft(s))

\* hexadecimal digits, for parseInt of a text that starts with 0x
HexDigits == <<"0", "1", "2", "3", "4", "5", "6", "7", "8", "9",
               "a", "b", "c", "d", "e", "f">>
HexUpper == <<"0", "1", "2", "3", "4", "5", "6", "7", "8", "9",
              "A", "B", "C", "D", "E", "F">>
IsHexDigit(c) == \E i \in 1..16 : HexDigits[i] = c \/ HexUpper[i] = c
HexDigitValue(c) == (CHOOSE i \in 1..16 : HexDigits[i] = c \/ HexUpper[i] = c) - 1
RECURSIVE HexRun(_, _)
HexRun(s, p) == IF p > Len(s) \/ ~IsHexDigit(s[p]) THEN 0 ELSE 1 + HexRun(s, p + 1)
RECURSIVE HexValue(_)
HexValue(s) ==
    IF s = <<>> THEN 0
    ELSE HexValue(SubSeq(s, 1, Len(s) - 1)) * 16 + HexDigitValue(s[Len(s)])

\* the text after its sign, and a number with the sign of the text
unsign(t) == IF t # <<>> /\ Head(t) \in {"-", "+"} THEN Tail(t) ELSE t
withSign(t, x) == IF x = NaN THEN NaN ELSE IF Head(t) = "-" THEN <<-x[1]>> ELSE x

\* parseInt(s) without a radix: blanks, a sign, then the leading digits, in
\* base 16 after 0x or 0X; NaN without a digit
hexInt(u, k) == IF k = 0 THEN NaN ELSE Num(HexValue(SubSeq(u, 3, 2 + k)))
decimalInt(u, k) == IF k = 0 THEN NaN ELSE Num(DigitsValue(SubSeq(u, 1, k)))
unsignedInt(u) ==
    IF Len(u) >= 2 /\ u[1] = "0" /\ u[2] \in {"x", "X"}
    THEN hexInt(u, HexRun(u, 3))
    ELSE decimalInt(u, DigitRun(u, 1))
signedInt(t) == withSign(t, unsignedInt(unsign(t)))
parseInt(s) == signedInt(TrimLeft(s))

\* n zeros
RECURSIVE Zeros(_)
Zeros(n) == IF n <= 0 THEN <<>> ELSE <<"0">> \o Zeros(n - 1)

\* the thousandths of the decimal number whose digits are ds, with the
\* point after the first pos of them
decimalValue(ds, pos) ==
    DigitsValue(IF pos <= 0 THEN <<>>
                ELSE IF pos <= Len(ds) THEN SubSeq(ds, 1, pos)
                ELSE ds \o Zeros(pos - Len(ds))) * Scale
      + DigitsValue(SubSeq((IF pos >= Len(ds) THEN <<>>
                            ELSE IF pos >= 0 THEN SubSeq(ds, pos + 1, Len(ds))
                            ELSE Zeros(-pos) \o ds) \o Zeros(3), 1, 3))

\* parseFloat(s): blanks, a sign, digits with an optional point and
\* decimals, an optional exponent; NaN when no digit is read.  Infinity is
\* not a value of the model.  In u, k digits stand before the point and f
\* after it, the mantissa ends before position p, the digits of the
\* exponent start at q and are g.
exponentValue(u, p, q, g) ==
    IF g = 0 THEN 0
    ELSE IF u[p + 1] = "-" THEN -DigitsValue(SubSeq(u, q, q + g - 1))
    ELSE DigitsValue(SubSeq(u, q, q + g - 1))
exponentOf(u, p, q) == exponentValue(u, p, q, DigitRun(u, q))
exponentAt(u, p) ==
    IF p <= Len(u) /\ u[p] \in {"e", "E"}
    THEN exponentOf(u, p, IF p < Len(u) /\ u[p + 1] \in {"-", "+"} THEN p + 2 ELSE p + 1)
    ELSE 0
mantissa(u, k, f) ==
    IF k = 0 /\ f = 0 THEN NaN
    ELSE <<decimalValue(SubSeq(u, 1, k) \o SubSeq(u, k + 2, k + 1 + f),
                        k + exponentAt(u, IF k < Len(u) /\ u[k + 1] = "."
                                          THEN k + 2 + f ELSE k + 1))>>
decimalsOf(u, k) ==
    mantissa(u, k, IF k < Len(u) /\ u[k + 1] = "." THEN DigitRun(u, k + 2) ELSE 0)
unsignedFloat(u) == decimalsOf(u, DigitRun(u, 1))
signedFloat(t) == withSign(t, unsignedFloat(unsign(t)))
parseFloat(s) == signedFloat(TrimLeft(s))

\* position of the first c in s at or after p, 0 when there is none
RECURSIVE IndexOf(_, _, _)
IndexOf(s, c, p) ==
    IF p > Len(s) THEN 0 ELSE IF s[p] = c THEN p ELSE IndexOf(s, c, p + 1)

\* String.prototype.split(',')
RECURSIVE Split(_, _)
Split(s, c) ==
    LET k == IndexOf(s, c, 1)
    IN IF k = 0 THEN <<s>>
       ELSE <<SubSeq(s, 1, k - 1)>> \o Split(SubSeq(s, k + 1, Len(s)), c)

\* Array.prototype.join
RECURSIVE Join(_, _)
Join(parts, c) ==
    IF parts = <<>> THEN <<>>
    ELSE IF Len(parts) = 1 THEN parts[1]
    ELSE parts[1] \o <<c>> \o Join(Tail(parts), c)

(***************************************************************************)
(* Date: getHours, getMinutes, setHours(h, 0, 0, 0), setDate(getDate()+1), *)
(* setMinutes(getMinutes() + n) on minutes since the epoch of the model.   *)
(***************************************************************************)
DayMinutes == 24 * 60

\* An Invalid Date: a Date whose time value is NaN.  A Date becomes one when
\* setDate or setHours moves it more than 100,000,000 days away from
\* 01.01.1970; its getters give NaN, its setters leave it as it is, and a
\* copy of it (new Date(d)) is an Invalid Date too.  The timestamps of the
\* model are positive, so that the value is none of them.
InvalidDate == -2

\* the getters and setters of a valid Date
getDay(t) == t \div DayMinutes
getHours(t) == (t % DayMinutes) \div 60
getMinutes(t) == t % 60
setHours(t, h) == getDay(t) * DayMinutes + h * 60
addDays(t, n) == t + n * DayMinutes
addMinutes(t, n) == t + n

\* minute of the day of a valid Date
minuteOfDay(t) == t % DayMinutes

\* date.getHours() as a number: NaN for an Invalid Date
hourOf(t) == IF t = InvalidDate THEN NaN ELSE Num(getHours(t))

(***************************************************************************)
(* calculateEndTime (src/scheduler.js 262-321).                            *)
(***************************************************************************)
DefaultDayStart == 9
DefaultDayEnd == 18
DefaultLunchStart == 13

\* a slip: the configured day start is not looked at
calcDayStartDefault(s) == DefaultDayStart

calcDayStart(s) == OrDefault(s.day_start, DefaultDayStart)
calcDayEnd(s) == OrDefault(s.day_end, DefaultDayEnd)
calcLunchStart(s) == OrDefault(s.lunch_start, DefaultLunchStart)

\* a slip: the minutes already spent in the current hour are not taken off
minutesUntilBreakWholeHours(t, de, ls) ==
    IF getHours(t) < ls
    THEN (ls - getHours(t)) * 60
    ELSE (de - getHours(t)) * 60

\* minutes left in the segment the clock is in (lines 291-299)
minutesUntilBreak(t, de, ls) ==
    IF getHours(t) < ls
    THEN (ls - getHours(t)) * 60 - getMinutes(t)
    ELSE (de - getHours(t)) * 60 - getMinutes(t)

\* a slip: a duration that exactly fills the segment is carried over the break
calcStepStrict(cur, rem, ds, de, ls) ==
    IF getHours(cur) >= de
    THEN [cur |-> setHours(addDays(cur, 1), ds), rem |-> rem]
    ELSE IF getHours(cur) = ls /\ getMinutes(cur) = 0
    THEN [cur |-> setHours(cur, ls + 1), rem |-> rem]
    ELSE IF lt(rem, Num(minutesUntilBreak(cur, de, ls)))
    THEN [cur |-> addMinutes(cur, truncate(rem)), rem |-> Zero]
    ELSE [cur |-> IF getHours(cur) < ls
                  THEN setHours(cur, ls + 1)
                  ELSE setHours(addDays(cur, 1), ds),
          rem |-> minus(rem, Num(minutesUntilBreak(cur, de, ls)))]

\* one iteration of the while loop (lines 272-317) on a valid Date;
\* setMinutes takes the integer part of its argument
calcStep(cur, rem, ds, de, ls) ==
    IF getHours(cur) >= de
    THEN [cur |-> setHours(addDays(cur, 1), ds), rem |-> rem]
    ELSE IF getHours(cur) = ls /\ getMinutes(cur) = 0
    THEN [cur |-> setHours(cur, ls + 1), rem |-> rem]
    ELSE IF le(rem, Num(minutesUntilBreak(cur, de, ls)))
    THEN [cur |-> addMinutes(cur, truncate(rem)), rem |-> Zero]
    ELSE [cur |-> IF getHours(cur) < ls
                  THEN setHours(cur, ls + 1)
                  ELSE setHours(addDays(cur, 1), ds),
          rem |-> minus(rem, Num(minutesUntilBreak(cur, de, ls)))]

\* The while loop of lines 271-318: <<t>> when it is left with the clock at
\* t, <<>> when it is never left.
\*
\* A round of lines 276-281 or 284-288 consumes nothing, and what a round
\* does depends on the remaining minutes and the time of day only.  idle
\* holds the instants the clock was at since minutes were last consumed.
\* When the clock is again at an instant of idle, the rounds in between
\* repeat for ever.  When it is at the time of day of an instant of idle on
\* another day, the rounds in between repeat and move the date by that many
\* days each time, until setDate or setHours takes the Date out of its range
\* and makes it an Invalid Date: then getHours is NaN, no test of lines
\* 276-301 holds, line 307 makes the remaining minutes NaN and the loop is
\* left at line 271 with the Invalid Date.  A call on an Invalid Date with
\* minutes to consume takes that last round at once.
RECURSIVE calcLoop(_, _, _, _, _, _)
calcLoop(cur, rem, ds, de, ls, idle) ==
    IF ~gt(rem, Zero) THEN <<cur>>
    ELSE IF cur = InvalidDate THEN <<InvalidDate>>
    ELSE IF \E i \in 1..Len(idle) : idle[i] = cur THEN <<>>
    ELSE IF \E i \in 1..Len(idle) : minuteOfDay(idle[i]) = minuteOfDay(cur)
    THEN <<InvalidDate>>
    ELSE LET n == calcStep(cur, rem, ds, de, ls)
         IN calcLoop(n.cur, n.rem, ds, de, ls,
                     IF n.rem = rem THEN Append(idle, cur) ELSE <<>>)

\* the call returns
calcReturns(startTime, durationMinutes, s) ==
    calcLoop(startTime, durationMinutes,
             calcDayStart(s), calcDayEnd(s), calcLunchStart(s), <<>>) # <<>>

\* the returned Date of a call that returns
calculateEndTime(startTime, durationMinutes, s) ==
    calcLoop(startTime, durationMinutes,
             calcDayStart(s), calcDayEnd(s), calcLunchStart(s), <<>>)[1]

(***************************************************************************)
(* Calendar dates of a Date: getFullYear, getMonth() + 1, getDate, and     *)
(* new Date(year, monthIndex, day).  The years of the model, 2025 to 2027, *)
(* have 365 days.                                                          *)
(***************************************************************************)
MonthLengths == <<31, 28, 31, 30, 31, 30, 31, 31, 30, 31, 30, 31>>
YearDays == 365
EpochYear == 2025

RECURSIVE DaysBeforeMonth(_)
DaysBeforeMonth(m) == IF m <= 1 THEN 0 ELSE DaysBeforeMonth(m - 1) + MonthLengths[m - 1]

getFullYear(t) == EpochYear + getDay(t) \div YearDays
dayOfYear(t) == getDay(t) % YearDays
getMonth1(t) == CHOOSE m \in 1..12 :
                   /\ DaysBeforeMonth(m) <= dayOfYear(t)
                   /\ dayOfYear(t) < DaysBeforeMonth(m) + MonthLengths[m]
getDate(t) == dayOfYear(t) - DaysBeforeMonth(getMonth1(t)) + 1

\* new Date(year, monthIndex, day): midnight of that day, overflow carried
newDate(year, monthIndex, day) ==
    ((year - EpochYear + monthIndex \div 12) * YearDays
       + DaysBeforeMonth((monthIndex % 12) + 1) + day - 1) * DayMinutes

\* String(NaN).padStart(2, '0'), and NaN inside a template literal
NaNText == <<"N", "a", "N">>

\* formatDateShort (lines 191-196): "YYYYMMDD"; every getter of an Invalid
\* Date gives NaN, and NaN + 1 is NaN
formatDateShort(t) ==
    IF t = InvalidDate THEN NaNText \o NaNText \o NaNText
    ELSE NatToString(getFullYear(t)) \o PadStart2(getMonth1(t)) \o PadStart2(getDate(t))

\* formatDateTime (lines 201-209): "DD.MM.YYYY HH:MM:SS"; the model's
\* timestamps carry no seconds
formatDateTime(t) ==
    IF t = InvalidDate
    THEN NaNText \o <<".">> \o NaNText \o <<".">> \o NaNText \o <<" ">>
           \o NaNText \o <<":">> \o NaNText \o <<":">> \o NaNText
    ELSE PadStart2(getDate(t)) \o <<".">> \o PadStart2(getMonth1(t)) \o <<".">>
           \o NatToString(getFullYear(t)) \o <<" ">> \o PadStart2(getHours(t))
           \o <<":">> \o PadStart2(getMinutes(t)) \o <<":">> \o PadStart2(0)

\* leftmost match of /(\d{2})\.(\d{2})\.(\d{4})/ at or after p, 0 without one
RECURSIVE dateMatchAt(_, _)
dateMatchAt(s, p) ==
    IF p + 9 > Len(s) THEN 0
    ELSE IF /\ IsDigit(s[p]) /\ IsDigit(s[p + 1]) /\ s[p + 2] = "."
            /\ IsDigit(s[p + 3]) /\ IsDigit(s[p + 4]) /\ s[p + 5] = "."
            /\ DigitRun(s, p + 6) >= 4
    THEN p
    ELSE dateMatchAt(s, p + 1)

\* a slip: a text without a date is read as the epoch instead of null
parseDateLenient(dateStr) ==
    IF dateMatchAt(dateStr, 1) = 0 THEN 0
    ELSE newDate(truncate(parseInt(SubSeq(dateStr, dateMatchAt(dateStr, 1) + 6,
                                          dateMatchAt(dateStr, 1) + 9))),
                 truncate(parseInt(SubSeq(dateStr, dateMatchAt(dateStr, 1) + 3,
                                          dateMatchAt(dateStr, 1) + 4))) - 1,
                 truncate(parseInt(SubSeq(dateStr, dateMatchAt(dateStr, 1),
                                          dateMatchAt(dateStr, 1) + 1))))

\* null, where a Date is expected: parseDate returns midnights only
NoDate == -1

\* parseDate (lines 214-220)
parseDate(dateStr) ==
    IF ~Truthy(dateStr) THEN NoDate
    ELSE LET p == dateMatchAt(dateStr, 1)
         IN IF p = 0 THEN NoDate
            ELSE newDate(truncate(parseInt(SubSeq(dateStr, p + 6, p + 9))),
                         truncate(parseInt(SubSeq(dateStr, p + 3, p + 4))) - 1,
                         truncate(parseInt(SubSeq(dateStr, p, p + 1))))

(***************************************************************************)
(* parseParameters (lines 95-114).                                         *)
(***************************************************************************)
\* leftmost position at or after p where (\d+): matches, 0 without one
RECURSIVE paramMatchAt(_, _)
paramMatchAt(s, p) ==
    IF p > Len(s) THEN 0
    ELSE IF DigitRun(s, p) > 0 /\ p + DigitRun(s, p) <= Len(s)
            /\ s[p + DigitRun(s, p)] = ":"
    THEN p
    ELSE paramMatchAt(s, p + 1)

\* (.*?)(\((.*?)\))?$ on the text after the colon: the value is the shortest
\* prefix that a parenthesised group reaching the end of the text can follow
parseValueRange(rest) ==
    LET open == IndexOf(rest, "(", 1)
        grouped == /\ open > 0 /\ open < Len(rest) /\ rest[Len(rest)] = ")"
    IN IF grouped
       THEN [value |-> SubSeq(rest, 1, open - 1),
             range |-> SubSeq(rest, open + 1, Len(rest) - 1)]
       ELSE [value |-> rest, range |-> <<>>]

\* one element of paramStr.split(','): its parameter, if it matches
parsePart(part) ==
    LET p == paramMatchAt(part, 1)
    IN IF p = 0 THEN <<>>
       ELSE LET n == DigitRun(part, p)
                vr == parseValueRange(SubSeq(part, p + n + 1, Len(part)))
            IN <<[parameterId |-> SubSeq(part, p, p + n - 1),
                  value |-> Trim(vr.value),
                  \* range ? range.trim() : null, null being the empty text
                  range |-> Trim(vr.range)]>>

RECURSIVE parseParts(_)
parseParts(parts) ==
    IF parts = <<>> THEN <<>> ELSE parsePart(Head(parts)) \o parseParts(Tail(parts))

parseParameters(paramStr) ==
    IF ~Truthy(paramStr) THEN <<>> ELSE parseParts(Split(paramStr, ","))

(***************************************************************************)
(* matchesParameters (lines 119-162).                                      *)
(***************************************************************************)
RoleParameterId == <<"1", "1", "5">>
LevelParameterId == <<"2", "6", "7", "3">>
Wildcard == <<"%">>

\* parameterDictionary.find(p => p['ПараметрID'] === id) is defined
inDictionary(dict, id) == \E i \in 1..Len(dict) : dict[i].parameterId = id

\* leftmost position at or after p where /(\d+)?-(\d+)?/ matches, 0 without one
RECURSIVE rangeMatchAt(_, _)
rangeMatchAt(s, p) ==
    IF p > Len(s) THEN 0
    ELSE IF p + DigitRun(s, p) <= Len(s) /\ s[p + DigitRun(s, p)] = "-"
    THEN p
    ELSE rangeMatchAt(s, p + 1)

\* the two groups of the range match; an absent group is the empty text
rangeGroups(s) ==
    LET p == rangeMatchAt(s, 1)
        n == DigitRun(s, p)
        dash == p + n
    IN [matched |-> p > 0,
        minLevel |-> IF p > 0 THEN SubSeq(s, p, dash - 1) ELSE <<>>,
        maxLevel |-> IF p > 0 THEN SubSeq(s, dash + 1, dash + DigitRun(s, dash + 1))
                     ELSE <<>>]

\* a slip: the upper bound of the range is not looked at
levelFailsNoMax(executor, param) ==
    LET requiredLevel == parseInt(param.value)
        executorLevel == parseInt(executor.level)
        g == rangeGroups(param.range)
    IN IF Truthy(param.range)
       THEN /\ g.matched
            /\ Truthy(g.minLevel) /\ lt(executorLevel, parseInt(g.minLevel))
       ELSE requiredLevel # NaN /\ ~strictEquals(executorLevel, requiredLevel)

\* lines 144-157: the level check rejects the executor
levelFails(executor, param) ==
    LET requiredLevel == parseInt(param.value)
        executorLevel == parseInt(executor.level)
        g == rangeGroups(param.range)
    IN IF Truthy(param.range)
       THEN /\ g.matched
            /\ \/ Truthy(g.minLevel) /\ lt(executorLevel, parseInt(g.minLevel))
               \/ Truthy(g.maxLevel) /\ gt(executorLevel, parseInt(g.maxLevel))
       ELSE requiredLevel # NaN /\ ~strictEquals(executorLevel, requiredLevel)

\* the body of the loop for one parameter: TRUE when it returns false
paramFails(executor, param, dict) ==
    /\ inDictionary(dict, param.parameterId)
    /\ param.value # Wildcard
    /\ \/ /\ param.parameterId = RoleParameterId /\ Truthy(executor.role)
          /\ executor.role # param.value
       \/ /\ param.parameterId = LevelParameterId /\ Truthy(executor.level)
          /\ levelFails(executor, param)

\* a slip: only the first requirement of the list is looked at
matchesFirstOnly(executor, parameters, dict, i) ==
    ~paramFails(executor, parameters[i], dict)

RECURSIVE matchesFrom(_, _, _, _)
matchesFrom(executor, parameters, dict, i) ==
    IF i > Len(parameters) THEN TRUE
    ELSE IF paramFails(executor, parameters[i], dict) THEN FALSE
    ELSE matchesFrom(executor, parameters, dict, i + 1)

matchesParameters(executor, parameters, dict) ==
    IF Len(parameters) = 0 THEN TRUE ELSE matchesFrom(executor, parameters, dict, 1)

(***************************************************************************)
(* parseOccupiedTime (lines 167-186).                                      *)
(***************************************************************************)
\* leftmost position at or after p where /(\d{8}):(\d+)-(\d+)/ matches
RECURSIVE occupiedMatchAt(_, _)
occupiedMatchAt(s, p) ==
    IF p + 11 > Len(s) THEN 0
    ELSE IF /\ DigitRun(s, p) >= 8 /\ s[p + 8] = ":"
            /\ DigitRun(s, p + 9) > 0
            /\ p + 9 + DigitRun(s, p + 9) <= Len(s)
            /\ s[p + 9 + DigitRun(s, p + 9)] = "-"
            /\ DigitRun(s, p + 10 + DigitRun(s, p + 9)) > 0
    THEN p
    ELSE occupiedMatchAt(s, p + 1)

occupiedPart(part) ==
    LET p == occupiedMatchAt(part, 1)
    IN IF p = 0 THEN <<>>
       ELSE LET n == DigitRun(part, p + 9)
                q == p + 10 + n
            IN <<[date |-> SubSeq(part, p, p + 7),
                  startHour |-> parseInt(SubSeq(part, p + 9, p + 8 + n)),
                  endHour |-> parseInt(SubSeq(part, q, q + DigitRun(part, q) - 1))]>>

RECURSIVE occupiedParts(_)
occupiedParts(parts) ==
    IF parts = <<>> THEN <<>>
    ELSE occupiedPart(Head(parts)) \o occupiedParts(Tail(parts))

parseOccupiedTime(occupiedStr) ==
    IF ~Truthy(occupiedStr) THEN <<>> ELSE occupiedParts(Split(occupiedStr, ","))

(***************************************************************************)
(* isExecutorAvailable (lines 225-257).                                    *)
(***************************************************************************)
\* a slip: a candidate that only touches the other range counts as a conflict
hoursOverlapClosed(startHour, endHour, otherStart, otherEnd) ==
    ~(lt(endHour, otherStart) \/ gt(startHour, otherEnd))

\* lines 233 and 250, on numbers
hoursOverlap(startHour, endHour, otherStart, otherEnd) ==
    ~(le(endHour, otherStart) \/ ge(startHour, otherEnd))

RECURSIVE slotsFree(_, _, _, _, _)
slotsFree(occupied, dateStr, startHour, endHour, i) ==
    IF i > Len(occupied) THEN TRUE
    ELSE IF /\ occupied[i].date = dateStr
            /\ hoursOverlap(startHour, endHour, occupied[i].startHour, occupied[i].endHour)
    THEN FALSE
    ELSE slotsFree(occupied, dateStr, startHour, endHour, i + 1)

RECURSIVE assignmentsFree(_, _, _, _, _, _)
assignmentsFree(list, executorId, dateStr, startHour, endHour, i) ==
    IF i > Len(list) THEN TRUE
    ELSE IF /\ list[i].executorId = executorId
            /\ formatDateShort(list[i].startTime) = dateStr
            /\ hoursOverlap(startHour, endHour, hourOf(list[i].startTime),
                            hourOf(list[i].endTime))
    THEN FALSE
    ELSE assignmentsFree(list, executorId, dateStr, startHour, endHour, i + 1)

isExecutorAvailable(executor, date, startHour, endHour, currentAssignments) ==
    /\ slotsFree(parseOccupiedTime(executor.occupied), formatDateShort(date),
                 startHour, endHour, 1)
    /\ assignmentsFree(currentAssignments, executor.id, formatDateShort(date),
                       startHour, endHour, 1)

(***************************************************************************)
(* scheduleTasks (lines 392-657), step by step.                            *)
(*                                                                         *)
(* A row of report 2681 is a record of texts:                              *)
(*   status   'Статус проекта'      taskId  'Задача проектаID'             *)
(*   task     'Задача проекта'      opId    'ОперацияID'                   *)
(*   op       'Операция'            normTask 'Норматив задачи'             *)
(*   normOp   'Норматив операции'   qty     'Кол-во'    qty2  'К-во'       *)
(*   required 'Исполнителей'        params  'Параметры задачи'             *)
(*   prev     'Предыдущая Задача'   start   'Старт'                        *)
(* A row of report 2777: id 'ПользовательID', name 'Пользователь',         *)
(* role 'Роль', level 'Квалификация -> Уровень', occupied 'Занятое время'. *)
(* A row of report 3283: code 'Код', value 'Значение'.                     *)
(* A row of report 3248: parameterId 'ПараметрID', parameter 'Параметр'.   *)
(***************************************************************************)
\* a slip: the flag is switched off, and every save point calls saveData
DebugOff == FALSE

\* line 22
DEBUG == TRUE

\* 'В работе'
InWork == <<"W">>
\* any other status: a row of the template
InTemplate == <<"T">>

SettingCodes == {"day_start", "day_end", "lunch_start"}

\* lines 404-407: a later row of a code replaces an earlier one
RECURSIVE settingOf(_, _, _)
settingOf(rows, code, i) ==
    IF i = 0 THEN NaN
    ELSE IF rows[i].code = code THEN parseInt(rows[i].value)
    ELSE settingOf(rows, code, i - 1)

buildSettingsMap(rows) == [c \in SettingCodes |-> settingOf(rows, c, Len(rows))]

\* Array.prototype.filter, as the positions kept
RECURSIVE positionsFrom(_, _, _)
positionsFrom(seq, Keep(_), i) ==
    IF i > Len(seq) THEN <<>>
    ELSE (IF Keep(seq[i]) THEN <<i>> ELSE <<>>) \o positionsFrom(seq, Keep, i + 1)

isWorkingRow(r) == r.status = InWork
isTemplateRow(r) == r.status # InWork

isOperation(item) == Truthy(item.opId)
itemIdOf(item) == IF isOperation(item) THEN item.opId ELSE item.taskId
itemNameOf(item) == IF isOperation(item) THEN item.op ELSE item.task
\* item[normativeField]
normativeOf(item) == IF isOperation(item) THEN item.normOp ELSE item.normTask
\* templateItem[normativeField], the field being the working item's
templateNormativeOf(t, item) == IF isOperation(item) THEN t.normOp ELSE t.normTask
withNormative(item, text) ==
    IF isOperation(item) THEN [item EXCEPT !.normOp = text]
    ELSE [item EXCEPT !.normTask = text]

\* lines 440-447: the predicate of templateProject.find
templateMatches(t, item) ==
    IF isOperation(item)
    THEN t.op = item.op /\ t.task = item.task
    ELSE t.task = item.task

\* a slip: the last matching template item is taken, not the first
RECURSIVE findTemplateLast(_, _, _)
findTemplateLast(template, item, i) ==
    IF i > Len(template) THEN 0
    ELSE IF findTemplateLast(template, item, i + 1) # 0
    THEN findTemplateLast(template, item, i + 1)
    ELSE IF templateMatches(template[i], item) THEN i
    ELSE 0

\* Array.prototype.find, as a position (0 when undefined)
RECURSIVE findTemplate(_, _, _)
findTemplate(template, item, i) ==
    IF i > Len(template) THEN 0
    ELSE IF templateMatches(template[i], item) THEN i
    ELSE findTemplate(template, item, i + 1)

\* a * b, cut to thousandths
times(a, b) ==
    IF a = NaN \/ b = NaN THEN NaN
    ELSE LET negative == (a[1] < 0) # (b[1] < 0)
             x == IF a[1] < 0 THEN -a[1] ELSE a[1]
             y == IF b[1] < 0 THEN -b[1] ELSE b[1]
             product == (x \div Scale) * y + ((x % Scale) * y) \div Scale
         IN IF negative THEN <<-product>> ELSE <<product>>

\* line 451: parseFloat(item['Кол-во'] || item['К-во'] || 1)
quantityOf(item) ==
    IF Truthy(item.qty) THEN parseFloat(item.qty)
    ELSE IF Truthy(item.qty2) THEN parseFloat(item.qty2)
    ELSE Num(1)

\* lines 449-452: the normative computed for an item, given its template item
calculatedNormative(item, t) == times(parseFloat(templateNormativeOf(t, item)), quantityOf(item))

\* lines 433-449: the item gets a normative from the template
resolves(item, template) ==
    /\ ~Truthy(normativeOf(item))
    /\ findTemplate(template, item, 1) # 0
    /\ Truthy(templateNormativeOf(template[findTemplate(template, item, 1)], item))

\* a slip: an item that already has a normative is resolved again
resolveItemAlways(item, template) ==
    IF /\ findTemplate(template, item, 1) # 0
       /\ Truthy(templateNormativeOf(template[findTemplate(template, item, 1)], item))
    THEN withNormative(item, numberToString(
             calculatedNormative(item, template[findTemplate(template, item, 1)])))
    ELSE item

\* lines 427-470 for one item: the item after the loop body
resolveItem(item, template) ==
    IF resolves(item, template)
    THEN withNormative(item, numberToString(
             calculatedNormative(item, template[findTemplate(template, item, 1)])))
    ELSE item

\* a slip: every row of the task is taken, the bare row included
RECURSIVE operationsOfAnyRow(_, _, _)
operationsOfAnyRow(wp, taskId, j) ==
    IF j > Len(wp) THEN <<>>
    ELSE (IF wp[j].taskId = taskId THEN <<j>> ELSE <<>>)
           \o operationsOfAnyRow(wp, taskId, j + 1)

\* lines 483-514
RECURSIVE operationsOf(_, _, _)
operationsOf(wp, taskId, j) ==
    IF j > Len(wp) THEN <<>>
    ELSE (IF wp[j].taskId = taskId /\ Truthy(wp[j].opId) THEN <<j>> ELSE <<>>)
           \o operationsOf(wp, taskId, j + 1)

RECURSIVE buildGroups(_, _, _)
buildGroups(wp, i, processedTasks) ==
    IF i > Len(wp) THEN <<>>
    ELSE IF wp[i].taskId \in processedTasks THEN buildGroups(wp, i + 1, processedTasks)
    ELSE <<[taskId |-> wp[i].taskId,
            taskName |-> wp[i].task,
            items |-> IF Len(operationsOf(wp, wp[i].taskId, 1)) > 0
                      THEN operationsOf(wp, wp[i].taskId, 1)
                      ELSE <<i>>,
            previousTask |-> wp[i].prev]>>
         \o buildGroups(wp, i + 1, processedTasks \cup {wp[i].taskId})

\* line 523: taskGroups.find(tg => !tg.previousTask)
RECURSIVE findHead(_, _)
findHead(groups, i) ==
    IF i > Len(groups) THEN 0
    ELSE IF ~Truthy(groups[i].previousTask) THEN i
    ELSE findHead(groups, i + 1)

\* a slip: the successor is looked up by the wrong end of the link
RECURSIVE findNextReversed(_, _, _)
findNextReversed(groups, current, i) ==
    IF i > Len(groups) THEN 0
    ELSE IF groups[i].taskName = groups[current].previousTask /\ i # current THEN i
    ELSE findNextReversed(groups, current, i + 1)

\* line 527: taskGroups.find(tg => tg.previousTask === currentTask.taskName)
RECURSIVE findNext(_, _, _)
findNext(groups, current, i) ==
    IF i > Len(groups) THEN 0
    ELSE IF groups[i].previousTask = groups[current].taskName THEN i
    ELSE findNext(groups, current, i + 1)

\* Math.ceil(n / 60): the least whole number of hours that holds n minutes
ceilHours(n) == IF n = NaN THEN NaN ELSE Num(-((-n[1]) \div (60 * Scale)))

\* a slip: a missing normative is taken as one minute instead of zero
normativeMinutesOrOne(item) ==
    IF Truthy(normativeOf(item)) THEN parseFloat(normativeOf(item)) ELSE Num(1)

\* line 549: parseFloat(item[normativeField] || 0)
normativeMinutes(item) ==
    IF Truthy(normativeOf(item)) THEN parseFloat(normativeOf(item)) ELSE Zero

\* line 569: parseInt(item['Исполнителей'] || 1)
requiredExecutors(item) ==
    IF Truthy(item.required) THEN parseInt(item.required) ELSE Num(1)

\* lines 562-564, as positions in executors
suitableExecutors(exs, item, dict) ==
    LET parameters == parseParameters(item.params)
        Suits(ex) == matchesParameters(ex, parameters, dict)
    IN positionsFrom(exs, Suits, 1)

\* lines 572-584, as positions in executors
RECURSIVE availableFrom(_, _, _, _, _, _, _)
availableFrom(exs, suitable, k, found, required, cursor, ctx) ==
    IF k > Len(suitable) THEN found
    ELSE IF isExecutorAvailable(exs[suitable[k]], cursor, hourOf(cursor),
                                plus(hourOf(cursor), ceilHours(ctx.normative)),
                                ctx.assignments)
    THEN IF ge(Num(Len(found) + 1), required)
         THEN Append(found, suitable[k])
         ELSE availableFrom(exs, suitable, k + 1, Append(found, suitable[k]),
                            required, cursor, ctx)
    ELSE availableFrom(exs, suitable, k + 1, found, required, cursor, ctx)

availableExecutors(exs, item, dict, cursor, list) ==
    availableFrom(exs, suitableExecutors(exs, item, dict), 1, <<>>,
                  requiredExecutors(item), cursor,
                  [normative |-> normativeMinutes(item), assignments |-> list])

\* lines 594-604
RECURSIVE newAssignments(_, _, _, _, _, _)
newAssignments(exs, chosen, k, item, startTime, endTime) ==
    IF k > Len(chosen) THEN <<>>
    ELSE <<[taskId |-> itemIdOf(item), taskName |-> itemNameOf(item),
            executorId |-> exs[chosen[k]].id, executorName |-> exs[chosen[k]].name,
            startTime |-> startTime, endTime |-> endTime,
            duration |-> normativeMinutes(item)]>>
         \o newAssignments(exs, chosen, k + 1, item, startTime, endTime)

\* lines 617-625; the test of line 622 is false for an Invalid Date
cursorAfter(endTime, normative, s) ==
    IF le(normative, Num(240)) /\ ge(hourOf(endTime), Num(calcDayEnd(s)))
    THEN setHours(addDays(endTime, 1), calcDayStart(s))
    ELSE endTime

(***************************************************************************)
(* The answers the server gives: what the four reports hold.               *)
(***************************************************************************)
NoCall == [fn |-> "none"]
NoResult == [fn |-> "none"]
\* what is seen of a call that is still running
NeverReturns == [fn |-> "running"]
Senior == <<"S", "e", "n", "i", "o", "r">>
Junior == <<"J", "u", "n", "i", "o", "r">>
dictionaryRow(id) == [parameterId |-> id, parameter |-> "p"]

None == <<>>
TaskA == <<"A">>
TaskB == <<"B">>
TaskC == <<"C">>
OpX == <<"X">>
OpY == <<"Y">>
Start21 == <<"2", "1", ".", "1", "1", ".", "2", "0", "2", "5">>
Start22 == <<"2", "2", ".", "1", "1", ".", "2", "0", "2", "5">>
Start24 == <<"2", "4", ".", "1", "1", ".", "2", "0", "2", "5">>

workingRow(taskId, task, opId, op, normative, prev, start) ==
    [status |-> InWork, taskId |-> taskId, task |-> task, opId |-> opId, op |-> op,
     normTask |-> IF opId = None THEN normative ELSE None,
     normOp |-> IF opId = None THEN None ELSE normative,
     qty |-> None, qty2 |-> None, required |-> None, params |-> None,
     prev |-> prev, start |-> start]

templateRow(task, op, normTask, normOp) ==
    [status |-> InTemplate, taskId |-> <<"9">>, task |-> task,
     opId |-> IF op = None THEN None ELSE <<"9", "9">>, op |-> op,
     normTask |-> normTask, normOp |-> normOp,
     qty |-> None, qty2 |-> None, required |-> None, params |-> None,
     prev |-> None, start |-> None]

executorRow(id, role, level, occupied) ==
    [id |-> id, name |-> id, role |-> role, level |-> level, occupied |-> occupied]

settingRow(code, value) == [code |-> code, value |-> value]

\* day 8-17 with lunch at 12
OtherCalendar ==
    <<settingRow("day_start", <<"8">>), settingRow("day_end", <<"1", "7">>),
      settingRow("lunch_start", <<"1", "2">>)>>

BothParameters == <<dictionaryRow(RoleParameterId), dictionaryRow(LevelParameterId)>>

\* the state before scheduleTasks has fetched anything
RunStart ==
    /\ pc = "start"
    /\ projectData = <<>> /\ settings = <<>>
    /\ parameterDictionary = <<>> /\ executors = <<>>
    /\ settingsMap = <<>> /\ templateProject = <<>> /\ workingProject = <<>>
    /\ idx = 0 /\ taskGroups = <<>> /\ orderedTasks = <<>> /\ currentTask = 0
    /\ gi = 0 /\ ii = 0 /\ currentTime = 0 /\ assignments = <<>>
    /\ saved = <<>> /\ logged = <<>> /\ content = "" /\ errors = <<>>
    /\ thrown = <<>>
    /\ call = NoCall /\ result = NoResult

\* Runs about time: two operations of task A, then task B; two executors with
\* occupied hours; every duration crosses or meets a break somewhere.
TimeDurations ==
    {None, <<"3", "0">>, <<"9", "0">>, <<"2", "4", "0">>, <<"3", "0", "0">>, <<"4", "8", "0">>}
TimeOccupied ==
    {None, <<"2", "0", "2", "5", "1", "1", "2", "1", ":", "1", "4", "-", "1", "5">>, <<"2", "0", "2", "5", "1", "1", "2", "2", ":", "9", "-", "1", "0", ",", "2", "0", "2", "5", "1", "1", "2", "1", ":", "9", "-", "1", "2">>}

TimeProjects ==
    {<<[workingRow(<<"1">>, TaskA, <<"1", "1">>, OpX, d1, None, Start21)
          EXCEPT !.required = r],
       [workingRow(<<"1">>, TaskA, <<"1", "2">>, OpY, d2, None, Start21)
          EXCEPT !.required = r],
       [workingRow(<<"2">>, TaskB, None, None, d3, TaskA, Start21)
          EXCEPT !.required = r]>> :
       d1 \in TimeDurations, d2 \in TimeDurations \ {<<"3", "0">>, <<"3", "0", "0">>},
       d3 \in {<<"9", "0">>, <<"4", "8", "0">>}, r \in {None, <<"2">>}}

TimeSettings == {<<>>}

TimeDictionaries == {<<>>}

TimeExecutors ==
    {<<executorRow("u1", None, None, o1), executorRow("u2", None, None, o2)>> :
       o1 \in TimeOccupied, o2 \in TimeOccupied \ {None}}

\* Runs about the chain: three rows over tasks 1, 2, 3, any of them named as
\* predecessor, the third task possibly sharing the name of the first.
chainStart(taskId) ==
    IF taskId = <<"1">> THEN Start21 ELSE IF taskId = <<"2">> THEN Start22 ELSE Start24

chainRow(t, op, name3, p) ==
    workingRow(t, IF t = <<"1">> THEN TaskA ELSE IF t = <<"2">> THEN TaskB ELSE name3,
               op, IF op = None THEN None ELSE OpX, <<"6", "0">>,
               IF t = <<"1">> THEN p[1] ELSE IF t = <<"2">> THEN p[2] ELSE p[3],
               chainStart(t))

\* the task ids of the three rows: every order of three tasks, and the
\* first task on two or three rows
ChainTaskIds ==
    {<<<<"1">>, <<"2">>, <<"3">>>>, <<<<"1">>, <<"3">>, <<"2">>>>,
     <<<<"2">>, <<"1">>, <<"3">>>>, <<<<"2">>, <<"3">>, <<"1">>>>,
     <<<<"3">>, <<"1">>, <<"2">>>>, <<<<"3">>, <<"2">>, <<"1">>>>,
     <<<<"1">>, <<"1">>, <<"2">>>>, <<<<"1">>, <<"2">>, <<"1">>>>,
     <<<<"2">>, <<"1">>, <<"1">>>>, <<<<"1">>, <<"1">>, <<"1">>>>}

ChainProjects ==
    {<<chainRow(t[1], op1, name3, p), chainRow(t[2], op2, name3, p),
       chainRow(t[3], None, name3, p)>> :
       t \in ChainTaskIds,
       op1 \in {None, <<"1", "1">>}, op2 \in {None, <<"1", "2">>},
       name3 \in {TaskC, TaskA},
       p \in {None, TaskC} \X {None, TaskA, TaskC} \X {None, TaskA, TaskB}}

ChainSettings == {<<>>}

ChainDictionaries == {<<>>}

ChainExecutors ==
    {<<executorRow("u1", None, None, None)>>}

\* Runs about normatives: an operation of task A and task B, with or without
\* a normative and a quantity, and a template of up to MaxTemplate rows.
TemplateRows ==
    {templateRow(TaskA, OpX, None, <<"3", "0">>),
     templateRow(TaskA, OpX, None, None),
     templateRow(TaskA, OpX, None, <<"0">>),
     templateRow(TaskA, OpY, None, <<"2", "0">>),
     templateRow(TaskB, None, <<"3", "0">>, None),
     templateRow(TaskB, OpX, None, <<"3", "0">>)}

NormativeProjects ==
    {template
       \o <<[workingRow(<<"1">>, TaskA, <<"1", "1">>, OpX, n1, None, Start21)
               EXCEPT !.qty = q[1], !.qty2 = q[2]],
            [workingRow(<<"2">>, TaskB, None, None, n2, TaskA, Start21)
               EXCEPT !.qty = <<"4">>]>> :
       n1 \in {None, <<"5", "0">>},
       q \in {<<None, None>>, <<<<"4">>, None>>, <<<<"0">>, None>>, <<None, <<"2">>>>},
       n2 \in {None},
       template \in UNION {[1..n -> TemplateRows] : n \in 0..MaxTemplate}}

NormativeSettings == {OtherCalendar}

NormativeDictionaries == {<<>>}

NormativeExecutors ==
    {<<executorRow("u1", None, None, None)>>}

\* Runs about matching: task A with a constraint string and a required number
\* of executors (none given, 0, a text without a number, 1 to MaxRequired),
\* then task B; three executors of different roles and levels.
MatchStrings ==
    {None, <<"1", "1", "5", ":", "S", "e", "n", "i", "o", "r">>, <<"1", "1", "5", ":", "S", "e", "n", "i", "o", "r", ",", "2", "6", "7", "3", ":", "3", "(", "2", "-", "4", ")">>, <<"2", "6", "7", "3", ":", "3">>, <<"1", "1", "5", ":", "%">>, <<"a", "n", "y">>}

MatchingProjects ==
    {<<[workingRow(<<"1">>, TaskA, None, None, <<"6", "0">>, None, Start21)
          EXCEPT !.params = params, !.required = r],
       workingRow(<<"2">>, TaskB, None, None, <<"6", "0">>, TaskA, Start21)>> :
       params \in MatchStrings,
       r \in {None, <<"0">>, <<"x">>} \cup {NatToString(n) : n \in 1..MaxRequired}}

MatchingSettings == {<<>>}

MatchingDictionaries == {<<>>, BothParameters}

MatchingExecutors ==
    {<<executorRow("u1", role1, level1, None),
       executorRow("u2", second[1], second[2], None),
       executorRow("u3", Senior, <<"3">>, o3)>> :
       role1 \in {Senior, Junior}, level1 \in {<<"3">>, <<"5">>},
       second \in {<<Senior, <<"3">>>>, <<None, None>>},
       o3 \in {None, <<"2", "0", "2", "5", "1", "1", "2", "1", ":", "9", "-", "1", "2">>}}

\* Runs that may fail: no row at all, rows of the template only, or a first
\* working row whose start cannot be read.
FailingProjects ==
    {(IF rows = "none" THEN <<>> ELSE <<templateRow(TaskA, None, <<"3", "0">>, None)>>)
       \o (IF rows = "both"
           THEN <<workingRow(<<"1">>, TaskA, None, None, None, None, start),
                  workingRow(<<"2">>, TaskB, None, None, <<"6", "0">>, TaskA, Start22)>>
           ELSE <<>>) :
       start \in {None, <<"s", "o", "o", "n">>, Start21, <<"2", "1", ".", "1", "1", ".", "2", "0", "2", "5", " ", "1", "0", ":", "3", "0", ":", "0", "0">>},
       rows \in {"none", "template", "both"}}

FailingSettings == {<<>>, OtherCalendar, <<settingRow("day_start", <<"0">>)>>}

FailingDictionaries == {<<>>}

FailingExecutors ==
    {<<executorRow("u1", None, None, None)>>}

\* Runs about numbers: normatives with a fraction or with no number in them,
\* a day that ends before it starts, a day that starts five hours before
\* midnight, an executor occupied late or early.
OddNormatives == {<<"4", "8", "0">>, <<"0", ".", "5">>, <<"9", "0", ".", "5">>, <<"a", "b", "c">>}
InvertedCalendar ==
    <<settingRow("day_start", <<"2", "0">>), settingRow("day_end", <<"1", "8">>)>>
NegativeCalendar ==
    <<settingRow("day_start", <<"-", "5">>)>>

OddProjects ==
    {<<workingRow(<<"1">>, TaskA, None, None, d1, None, Start21),
       workingRow(<<"2">>, TaskB, None, None, d2, TaskA, Start21)>> :
       d1 \in OddNormatives, d2 \in OddNormatives}

OddSettings == {<<>>, InvertedCalendar, NegativeCalendar}

OddDictionaries == {<<>>}

OddExecutors ==
    {<<executorRow("u1", None, None, o1), executorRow("u2", None, None, None)>> :
       o1 \in {None, <<"2", "0", "2", "5", "1", "1", "2", "1", ":", "1", "7", "-", "2", "0">>, <<"2", "0", "2", "5", "1", "1", "2", "1", ":", "9", "-", "1", "2">>}}

\* Runs about malformed answers: a report whose JSON body is an object and
\* no list, for an item that is scheduled, one that is skipped, one with a
\* constraint string, and one with a constraint string that comes after an
\* item without.
ObjectReport == <<[notAList |-> TRUE]>>
isList(report) == report # ObjectReport

MalformedProjects ==
    {ObjectReport}
      \cup {<<[workingRow(<<"1">>, TaskA, None, None, n, None, Start21)
                 EXCEPT !.params = p]>> :
               n \in {<<"6", "0">>, <<"0">>},
               p \in {None, <<"1", "1", "5", ":", "S", "e", "n", "i", "o", "r">>}}
      \cup {<<workingRow(<<"1">>, TaskA, None, None, <<"6", "0">>, None, Start21),
               [workingRow(<<"2">>, TaskB, None, None, <<"6", "0">>, TaskA, Start21)
                  EXCEPT !.params = <<"1", "1", "5", ":", "S", "e", "n", "i", "o", "r">>]>>}

MalformedSettings == {<<>>, ObjectReport}

MalformedDictionaries == {<<>>, ObjectReport}

MalformedExecutors == {<<executorRow("u1", None, None, None)>>, ObjectReport}

\* the families of answers; a run gets the four reports of one family
FamilyNames == {"time", "chain", "normative", "matching", "failing", "odd", "malformed"}

ProjectReports(family) ==
    CASE family = "time" -> TimeProjects
      [] family = "chain" -> ChainProjects
      [] family = "normative" -> NormativeProjects
      [] family = "matching" -> MatchingProjects
      [] family = "failing" -> FailingProjects
      [] family = "odd" -> OddProjects
      [] family = "malformed" -> MalformedProjects

SettingsReports(family) ==
    CASE family = "time" -> TimeSettings
      [] family = "chain" -> ChainSettings
      [] family = "normative" -> NormativeSettings
      [] family = "matching" -> MatchingSettings
      [] family = "failing" -> FailingSettings
      [] family = "odd" -> OddSettings
      [] family = "malformed" -> MalformedSettings

DictionaryReports(family) ==
    CASE family = "time" -> TimeDictionaries
      [] family = "chain" -> ChainDictionaries
      [] family = "normative" -> NormativeDictionaries
      [] family = "matching" -> MatchingDictionaries
      [] family = "failing" -> FailingDictionaries
      [] family = "odd" -> OddDictionaries
      [] family = "malformed" -> MalformedDictionaries

ExecutorReports(family) ==
    CASE family = "time" -> TimeExecutors
      [] family = "chain" -> ChainExecutors
      [] family = "normative" -> NormativeExecutors
      [] family = "matching" -> MatchingExecutors
      [] family = "failing" -> FailingExecutors
      [] family = "odd" -> OddExecutors
      [] family = "malformed" -> MalformedExecutors

\* a slip: the error is written without asking whether the element exists
caughtAnywhere(lines, message) ==
    /\ pc' = "failed"
    /\ errors' = lines \o <<message>>
    /\ content' = "error"

\* the catch block, lines 646-656: console.error, then the message is
\* written into the .content element when the page has one (line 649)
caught(lines, message) ==
    /\ pc' = "failed"
    /\ errors' = lines \o <<message>>
    /\ content' = IF contentDiv THEN "error" ELSE content

\* an exception thrown inside the try block of scheduleTasks
failWith(message) == caught(errors, message)

\* the positions of scheduleTasks at which the next thing is an await of
\* fetchData (lines 398-401), and the report that is asked for there
FetchPositions == {"start", "fetch3283", "fetch3248", "fetch2777"}
reportAt(position) ==
    CASE position = "start" -> "2681"
      [] position = "fetch3283" -> "3283"
      [] position = "fetch3248" -> "3248"
      [] position = "fetch2777" -> "2777"

\* what an await of fetchData throws: the error of line 46 for an answer
\* with a status that is not ok, and the TypeError of line 49 (data.length)
\* for a body that is the JSON value null; a fetch that rejects and a body
\* that is not JSON throw with other messages and to the same effect
FetchFailures ==
    {"HTTP error! status: 500", "Cannot read properties of null (reading 'length')"}

\* line 52: the line fetchData writes to the console before it throws again
fetchErrorLine(reportId, failure) ==
    "Failed to fetch data from report " \o reportId \o ": " \o failure

\* lines 39-55 with 398-401: one await of fetchData.  The request is answered
\* with a JSON list or object, which becomes the report, or the try block
\* throws; then fetchData writes the failure to the console (line 52) and
\* throws it again (line 53), which rejects the promise scheduleTasks awaits.
\* scheduleTasks goes on in its catch block in a later microtask.
fetchData ==
    /\ pc \in FetchPositions
    /\ \/ /\ pc = "start"
          /\ projectData' \in ProjectReports(server)
          /\ pc' = "fetch3283"
          /\ UNCHANGED <<settings, parameterDictionary, executors, errors, thrown>>
       \/ /\ pc = "fetch3283"
          /\ settings' \in SettingsReports(server)
          /\ pc' = "fetch3248"
          /\ UNCHANGED <<projectData, parameterDictionary, executors, errors, thrown>>
       \/ /\ pc = "fetch3248"
          /\ parameterDictionary' \in DictionaryReports(server)
          /\ pc' = "fetch2777"
          /\ UNCHANGED <<projectData, settings, executors, errors, thrown>>
       \/ /\ pc = "fetch2777"
          /\ executors' \in ExecutorReports(server)
          /\ pc' = "loaded"
          /\ UNCHANGED <<projectData, settings, parameterDictionary, errors, thrown>>
       \/ /\ \E failure \in FetchFailures :
                /\ errors' = Append(errors, fetchErrorLine(reportAt(pc), failure))
                /\ thrown' = <<failure>>
          /\ pc' = "rejected"
          /\ UNCHANGED <<projectData, settings, parameterDictionary, executors>>
    /\ UNCHANGED <<server, contentDiv, content, settingsMap, templateProject, workingProject, idx,
                   taskGroups, orderedTasks, currentTask, gi, ii, currentTime,
                   assignments, saved, logged, call, result>>

\* lines 646-656 after a rejected await: the catch block of scheduleTasks
\* gets what fetchData has thrown
catchRejected ==
    /\ pc = "rejected"
    /\ caught(errors, thrown[1])
    /\ UNCHANGED <<server, contentDiv, thrown, projectData, settings, parameterDictionary,
                   executors, settingsMap, templateProject, workingProject, idx,
                   taskGroups, orderedTasks, currentTask, gi, ii, currentTime,
                   assignments, saved, logged, call, result>>

\* While scheduleTasks awaits a report, and between the rejection of an
\* await and the catch block, other scripts of the page run; one of them may
\* add or remove the .content element.  After line 401 the run has no await
\* (DEBUG is true) and nothing else runs until it ends.
PageChanges ==
    /\ pc \in FetchPositions \cup {"rejected"}
    /\ contentDiv' = ~contentDiv
    /\ UNCHANGED <<server, thrown, pc, projectData, settings, parameterDictionary, executors,
                   settingsMap, templateProject, workingProject, idx, taskGroups,
                   orderedTasks, currentTask, gi, ii, currentTime, assignments,
                   saved, logged, content, errors, call, result>>

\* lines 403-423; settings.forEach (line 405) and projectData.filter (line
\* 415) throw a TypeError for a report that is no list
LoadAndSeparate ==
    /\ pc = "loaded"
    /\ IF ~isList(settings)
       THEN /\ failWith("settings.forEach is not a function")
            /\ UNCHANGED <<settingsMap, templateProject, workingProject, idx>>
       ELSE IF ~isList(projectData)
       THEN /\ settingsMap' = buildSettingsMap(settings)
            /\ failWith("projectData.filter is not a function")
            /\ UNCHANGED <<templateProject, workingProject, idx>>
       ELSE /\ settingsMap' = buildSettingsMap(settings)
            /\ templateProject' =
                 [k \in 1..Len(positionsFrom(projectData, isTemplateRow, 1)) |->
                     projectData[positionsFrom(projectData, isTemplateRow, 1)[k]]]
            /\ workingProject' =
                 [k \in 1..Len(positionsFrom(projectData, isWorkingRow, 1)) |->
                     projectData[positionsFrom(projectData, isWorkingRow, 1)[k]]]
            /\ IF Len(workingProject') = 0
               THEN /\ failWith("No working project found")
                    /\ idx' = idx
               ELSE /\ pc' = "normatives"
                    /\ idx' = 1
                    /\ UNCHANGED <<errors, content>>
    /\ UNCHANGED <<server, contentDiv, thrown, projectData, settings, parameterDictionary, executors, taskGroups,
                   orderedTasks, currentTask, gi, ii, currentTime, assignments,
                   saved, logged, call, result>>

\* lines 427-470, one item of the loop
ResolveNormative ==
    /\ pc = "normatives"
    /\ idx <= Len(workingProject)
    /\ LET item == workingProject[idx]
           text == normativeOf(resolveItem(item, templateProject))
       IN /\ workingProject' = [workingProject EXCEPT ![idx] = resolveItem(item, templateProject)]
          /\ IF resolves(item, templateProject)
             THEN IF ~DEBUG
                  THEN /\ saved' = Append(saved, [item |-> itemIdOf(item),
                                                  field |-> "t3094", value |-> text])
                       /\ logged' = logged
                  ELSE /\ logged' = Append(logged, [kind |-> "would save normative",
                                                    item |-> itemIdOf(item),
                                                    value |-> text])
                       /\ saved' = saved
             ELSE UNCHANGED <<saved, logged>>
    /\ idx' = idx + 1
    /\ UNCHANGED <<server, contentDiv, thrown, pc, projectData, settings, parameterDictionary, executors,
                   settingsMap, templateProject, taskGroups, orderedTasks, currentTask,
                   gi, ii, currentTime, assignments, content, errors, call, result>>

\* lines 476-479: the start date cannot be read
FailNoStartDate ==
    /\ pc = "normatives"
    /\ idx > Len(workingProject)
    /\ parseDate(workingProject[1].start) = NoDate
    /\ failWith("Project start date not found")
    /\ UNCHANGED <<server, contentDiv, thrown, projectData, settings, parameterDictionary, executors, settingsMap,
                   templateProject, workingProject, idx, taskGroups, orderedTasks,
                   currentTask, gi, ii, currentTime, assignments, saved, logged,
                   call, result>>

\* lines 476-523: the start date is read, the groups are built, the head found
GroupTasks ==
    /\ pc = "normatives"
    /\ idx > Len(workingProject)
    /\ parseDate(workingProject[1].start) # NoDate
    /\ taskGroups' = buildGroups(workingProject, 1, {})
    /\ orderedTasks' = <<>>
    /\ currentTask' = findHead(taskGroups', 1)
    /\ pc' = "ordering"
    /\ UNCHANGED <<server, contentDiv, thrown, projectData, settings, parameterDictionary, executors, settingsMap,
                   templateProject, workingProject, idx, gi, ii, currentTime,
                   assignments, saved, logged, content, errors, call, result>>

\* lines 525-529, one round of the while loop; the list is followed up to
\* MaxOrder entries, which is more than there are groups, so a loop that gets
\* there has appended a group twice and goes on for ever
OrderStep ==
    /\ pc = "ordering"
    /\ currentTask # 0
    /\ orderedTasks' = IF Len(orderedTasks) < MaxOrder
                       THEN Append(orderedTasks, currentTask)
                       ELSE orderedTasks
    /\ currentTask' = findNext(taskGroups, currentTask, 1)
    /\ UNCHANGED <<server, contentDiv, thrown, pc, projectData, settings, parameterDictionary, executors,
                   settingsMap, templateProject, workingProject, idx, taskGroups,
                   gi, ii, currentTime, assignments, saved, logged, content, errors,
                   call, result>>

\* lines 531-539: the loop has ended, the cursor is set
BeginScheduling ==
    /\ pc = "ordering"
    /\ currentTask = 0
    /\ currentTime' = setHours(parseDate(workingProject[1].start),
                               calcDayStart(settingsMap))
    /\ assignments' = <<>>
    /\ gi' = 1 /\ ii' = 1
    /\ pc' = "scheduling"
    /\ UNCHANGED <<server, contentDiv, thrown, projectData, settings, parameterDictionary, executors, settingsMap,
                   templateProject, workingProject, idx, taskGroups, orderedTasks,
                   currentTask, saved, logged, content, errors, call, result>>

\* the item the two loops of lines 541-544 are at
currentGroup == taskGroups[orderedTasks[gi]]
currentItem == workingProject[currentGroup.items[ii]]

\* the loops move to the next item
advanceLoops ==
    IF ii < Len(currentGroup.items)
    THEN /\ ii' = ii + 1 /\ gi' = gi
    ELSE /\ ii' = 1 /\ gi' = gi + 1

\* a slip: the test for a missing normative comes after the save point
SkipItemAfterSave ==
    /\ pc = "scheduling"
    /\ gi <= Len(orderedTasks)
    /\ strictEquals(normativeMinutes(currentItem), Zero)
    /\ logged' = logged \o <<[kind |-> "would save start time",
                              item |-> itemIdOf(currentItem),
                              value |-> formatDateTime(currentTime)],
                             [kind |-> "skip", item |-> itemIdOf(currentItem),
                              value |-> <<>>]>>
    /\ advanceLoops
    /\ UNCHANGED <<server, contentDiv, thrown, pc, projectData, settings, parameterDictionary, executors,
                   settingsMap, templateProject, workingProject, idx, taskGroups,
                   orderedTasks, currentTask, currentTime, assignments, saved,
                   content, errors, call, result>>

\* lines 545-554: an item without a normative is skipped
SkipItem ==
    /\ pc = "scheduling"
    /\ gi <= Len(orderedTasks)
    /\ strictEquals(normativeMinutes(currentItem), Zero)
    /\ logged' = Append(logged, [kind |-> "skip", item |-> itemIdOf(currentItem),
                                 value |-> <<>>])
    /\ advanceLoops
    /\ UNCHANGED <<server, contentDiv, thrown, pc, projectData, settings, parameterDictionary, executors,
                   settingsMap, templateProject, workingProject, idx, taskGroups,
                   orderedTasks, currentTask, currentTime, assignments, saved,
                   content, errors, call, result>>

\* executors.filter (line 562) throws for executors that are no list, and
\* parameterDictionary.find (line 123) for a dictionary that is no list, when
\* the item has a requirement and there is an executor to test
listError(item) ==
    IF ~isList(executors) THEN <<"executors.filter is not a function">>
    ELSE IF /\ ~isList(parameterDictionary)
            /\ Len(executors) > 0
            /\ Len(parseParameters(item.params)) > 0
    THEN <<"parameterDictionary.find is not a function">>
    ELSE <<>>

\* a slip: an item that found no executor leaves the cursor where it was
ScheduleItemIdleWhenUnassigned ==
    /\ pc = "scheduling"
    /\ gi <= Len(orderedTasks)
    /\ ~strictEquals(normativeMinutes(currentItem), Zero)
    /\ LET item == currentItem
           normative == normativeMinutes(item)
           chosen == availableExecutors(executors, item, parameterDictionary,
                                        currentTime, assignments)
           startTime == currentTime
           endTime == calculateEndTime(startTime, normative, settingsMap)
           startText == formatDateTime(startTime)
       IN /\ listError(item) = <<>>
          /\ calcReturns(startTime, normative, settingsMap)
          /\ assignments' = assignments
                \o newAssignments(executors, chosen, 1, item, startTime, endTime)
          /\ logged' = Append(logged, [kind |-> "would save start time",
                                       item |-> itemIdOf(item), value |-> startText])
          /\ saved' = saved
          /\ currentTime' = IF chosen = <<>> THEN currentTime
                            ELSE cursorAfter(endTime, normative, settingsMap)
    /\ advanceLoops
    /\ UNCHANGED <<server, contentDiv, thrown, pc, projectData, settings, parameterDictionary, executors,
                   settingsMap, templateProject, workingProject, idx, taskGroups,
                   orderedTasks, currentTask, content, errors, call, result>>

\* lines 586-588: the line written when fewer executors were found than asked
shortfallWarning(item, chosen) ==
    IF lt(Num(Len(chosen)), requiredExecutors(item))
    THEN <<[kind |-> "warning", item |-> itemIdOf(item),
            value |-> numberToString(Num(Len(chosen)))]>>
    ELSE <<>>

\* lines 556-625: an item is scheduled.  The cursor, and with it the start
\* and the end of the item, may be an Invalid Date: the assignments are
\* pushed, the start time is written and the cursor is set all the same.
\* When the call of calculateEndTime in line 592 never returns, the run stays
\* inside it: nothing after line 588 happens, and the page never gets a
\* calendar or an error.
ScheduleItem ==
    /\ pc = "scheduling"
    /\ gi <= Len(orderedTasks)
    /\ ~strictEquals(normativeMinutes(currentItem), Zero)
    /\ LET item == currentItem
           normative == normativeMinutes(item)
           chosen == availableExecutors(executors, item, parameterDictionary,
                                        currentTime, assignments)
           startTime == currentTime
           endTime == calculateEndTime(startTime, normative, settingsMap)
           warning == shortfallWarning(item, chosen)
           startText == formatDateTime(startTime)
       IN IF listError(item) # <<>>
          THEN /\ failWith(listError(item)[1])
               /\ UNCHANGED <<gi, ii, assignments, saved, logged, currentTime>>
          ELSE IF ~calcReturns(startTime, normative, settingsMap)
          THEN /\ pc' = "looping"
               /\ logged' = logged \o warning
               /\ UNCHANGED <<gi, ii, assignments, saved, currentTime, errors, content>>
          ELSE /\ pc' = pc
               /\ UNCHANGED <<errors, content>>
               /\ assignments' = assignments
                     \o newAssignments(executors, chosen, 1, item, startTime, endTime)
               /\ IF ~DEBUG
                  THEN /\ saved' = Append(saved, [item |-> itemIdOf(item),
                                                  field |-> IF isOperation(item)
                                                            THEN "t2665" ELSE "t798",
                                                  value |-> startText])
                       /\ logged' = logged \o warning
                  ELSE /\ logged' = logged \o warning
                             \o <<[kind |-> "would save start time",
                                   item |-> itemIdOf(item), value |-> startText]>>
                       /\ saved' = saved
               /\ currentTime' = cursorAfter(endTime, normative, settingsMap)
               /\ advanceLoops
    /\ UNCHANGED <<server, contentDiv, thrown, projectData, settings, parameterDictionary, executors,
                   settingsMap, templateProject, workingProject, idx, taskGroups,
                   orderedTasks, currentTask, call, result>>

\* lines 629-644: the calendar is generated and shown; executors.forEach of
\* generateCalendar (line 333) throws for executors that are no list, and
\* startTime.toISOString() (line 338) throws a RangeError for an assignment
\* whose start is an Invalid Date; an end that is one is written as text
Render ==
    /\ pc = "scheduling"
    /\ gi > Len(orderedTasks)
    /\ IF ~isList(executors)
       THEN failWith("executors.forEach is not a function")
       ELSE IF \E n \in 1..Len(assignments) : assignments[n].startTime = InvalidDate
       THEN failWith("Invalid time value")
       ELSE /\ pc' = "done"
            /\ IF contentDiv
               THEN /\ content' = "calendar"
                    /\ errors' = errors
               ELSE /\ content' = content
                    /\ errors' = Append(errors, "Content div not found!")
    /\ UNCHANGED <<server, contentDiv, thrown, projectData, settings, parameterDictionary, executors,
                   settingsMap, templateProject, workingProject, idx, taskGroups,
                   orderedTasks, currentTask, gi, ii, currentTime, assignments,
                   saved, logged, call, result>>

Next ==
    \/ fetchData
    \/ catchRejected
    \/ PageChanges
    \/ LoadAndSeparate
    \/ ResolveNormative
    \/ FailNoStartDate
    \/ GroupTasks
    \/ OrderStep
    \/ BeginScheduling
    \/ SkipItem
    \/ ScheduleItem
    \/ Render

Init ==
    /\ RunStart
    /\ server \in FamilyNames
    /\ contentDiv \in BOOLEAN

Spec == Init /\ [][Next]_vars

(***************************************************************************)
(* Harness: calculateEndTime on drawn arguments.                           *)
(***************************************************************************)
CalcStartMinutes == {0, 15, 30}
\* whole numbers of minutes, and 0.5, 45.5 and 200.25 minutes
CalcDurations ==
    {Num(-60), Num(0), <<500>>, <<45500>>, <<200250>>}
      \cup {Num(30 * k) : k \in 1..MaxDurSteps}
CalcSettings ==
    [day_start : {NaN, Num(0), Num(8)}, day_end : {NaN, Num(17)},
     lunch_start : {NaN, Num(12), Num(16)}]

RunIdle ==
    /\ pc = "harness"
    /\ projectData = <<>> /\ settings = <<>> /\ parameterDictionary = <<>>
    /\ executors = <<>> /\ settingsMap = <<>> /\ templateProject = <<>>
    /\ workingProject = <<>> /\ idx = 0 /\ taskGroups = <<>>
    /\ orderedTasks = <<>> /\ currentTask = 0 /\ gi = 0 /\ ii = 0
    /\ currentTime = 0 /\ assignments = <<>> /\ saved = <<>> /\ logged = <<>>
    /\ server = "none" /\ contentDiv = TRUE /\ thrown = <<>>
    /\ content = "" /\ errors = <<>>

InitCalc ==
    /\ RunIdle
    /\ \E h \in 0..23, m \in CalcStartMinutes, d \in CalcDurations, s \in CalcSettings :
          call = [fn |-> "calculateEndTime", startTime |-> h * 60 + m,
                  durationMinutes |-> d, settings |-> s]
    /\ result = NoResult

CallCalculateEndTime ==
    /\ call.fn = "calculateEndTime"
    /\ result = NoResult
    /\ result' = IF calcReturns(call.startTime, call.durationMinutes, call.settings)
                 THEN [fn |-> "calculateEndTime",
                       value |-> calculateEndTime(call.startTime, call.durationMinutes,
                                                  call.settings)]
                 \* the call goes round for ever
                 ELSE NeverReturns
    /\ UNCHANGED <<runVars, call>>

NextCalc == CallCalculateEndTime

SpecCalc == InitCalc /\ [][NextCalc]_vars

(***************************************************************************)
(* Harness: parseParameters and matchesParameters on drawn arguments.  A   *)
(* constraint string is written from a list of requirements by the grammar *)
(* ID:value or ID:value(min-max).                                          *)
(***************************************************************************)
OtherParameterId == <<"9", "9", "9">>

formatRequirement(r) ==
    r.id \o <<":">> \o r.value
      \o (IF r.ranged THEN <<"(">> \o r.min \o <<"-">> \o r.max \o <<")">> ELSE <<>>)

RECURSIVE formatRequirements(_)
formatRequirements(rs) ==
    IF rs = <<>> THEN <<>>
    ELSE <<formatRequirement(Head(rs))>> \o formatRequirements(Tail(rs))

MatchRequirements ==
    [id : {RoleParameterId}, value : {Senior, Junior, Wildcard},
     ranged : {FALSE}, min : {<<>>}, max : {<<>>}]
    \cup [id : {LevelParameterId}, value : {<<"3">>, Wildcard},
          ranged : {FALSE}, min : {<<>>}, max : {<<>>}]
    \cup {r \in [id : {LevelParameterId}, value : {<<"3">>, Wildcard},
                 ranged : {TRUE}, min : {<<>>, <<"2">>}, max : {<<>>, <<"4">>}] :
            r.min # <<>> \/ r.max # <<>>}
    \cup [id : {OtherParameterId}, value : {<<"x">>},
          ranged : {FALSE}, min : {<<>>}, max : {<<>>}]

MatchRequirementLists ==
    UNION {[1..n -> MatchRequirements] : n \in 1..MaxReqs}

MatchExecutors ==
    [id : {"u1"}, name : {"U1"}, role : {<<>>, Senior, Junior},
     level : {<<>>, <<"1">>, <<"3">>, <<"5">>}, occupied : {<<>>}]

MatchDictionaries ==
    {<<>>, <<dictionaryRow(RoleParameterId)>>, <<dictionaryRow(LevelParameterId)>>,
     <<dictionaryRow(RoleParameterId), dictionaryRow(LevelParameterId)>>}

InitMatch ==
    /\ RunIdle
    /\ \E e \in MatchExecutors, rs \in MatchRequirementLists, d \in MatchDictionaries :
          call = [fn |-> "matchesParameters", executor |-> e, requirements |-> rs,
                  paramStr |-> Join(formatRequirements(rs), ","), dictionary |-> d]
    /\ result = NoResult

CallMatchesParameters ==
    /\ call.fn = "matchesParameters"
    /\ result = NoResult
    /\ result' = [fn |-> "matchesParameters",
                  value |-> matchesParameters(call.executor,
                                              parseParameters(call.paramStr),
                                              call.dictionary)]
    /\ UNCHANGED <<runVars, call>>

NextMatch == CallMatchesParameters

SpecMatch == InitMatch /\ [][NextMatch]_vars

(***************************************************************************)
(* Harness: isExecutorAvailable on drawn arguments.  The occupied-time     *)
(* string is written from a list of slots by the grammar                   *)
(* YYYYMMDD:startHour-endHour.                                             *)
(***************************************************************************)
\* 21.11.2025 and 22.11.2025 as days since 01.01.2025, and their date keys
AvailDay == 304 + 20
AvailNextDay == AvailDay + 1
dayKey(d) ==
    IF d = AvailDay THEN <<"2", "0", "2", "5", "1", "1", "2", "1">>
    ELSE <<"2", "0", "2", "5", "1", "1", "2", "2">>

formatSlot(slot) ==
    dayKey(slot.day) \o <<":">> \o NatToString(slot.startHour) \o <<"-">>
      \o NatToString(slot.endHour)

RECURSIVE formatSlots(_)
formatSlots(slots) ==
    IF slots = <<>> THEN <<>> ELSE <<formatSlot(Head(slots))>> \o formatSlots(Tail(slots))

AvailSlots ==
    {[day |-> AvailDay, startHour |-> 9, endHour |-> 12],
     [day |-> AvailDay, startHour |-> 12, endHour |-> 13],
     [day |-> AvailNextDay, startHour |-> 8, endHour |-> 11]}

at(day, hour, minute) == day * DayMinutes + hour * 60 + minute

assignmentOf(item, executorId, startTime, endTime, duration) ==
    [taskId |-> item, taskName |-> item, executorId |-> executorId,
     executorName |-> executorId, startTime |-> startTime, endTime |-> endTime,
     duration |-> duration]

AvailAssignments ==
    {assignmentOf("i1", "u1", at(AvailDay, 9, 0), at(AvailDay, 10, 30), Num(90)),
     assignmentOf("i2", "u1", at(AvailDay, 11, 0), at(AvailDay, 14, 0), Num(120)),
     assignmentOf("i3", "u2", at(AvailDay, 9, 0), at(AvailDay, 13, 0), Num(240)),
     assignmentOf("i4", "u1", at(AvailNextDay, 9, 0), at(AvailNextDay, 12, 0), Num(180)),
     assignmentOf("i5", "u1", at(AvailDay, 16, 0), at(AvailNextDay, 10, 0), Num(240))}

\* the hours asked for; the end hour may be no number, as it is in line 578
\* for a normative that has no number in it
AvailCandidates ==
    {<<Num(9), Num(10)>>, <<Num(10), Num(11)>>, <<Num(11), Num(12)>>,
     <<Num(12), Num(13)>>, <<Num(9), Num(13)>>, <<Num(10), Num(14)>>, <<Num(12), NaN>>}

InitAvail ==
    /\ RunIdle
    /\ \E slots \in UNION {[1..n -> AvailSlots] : n \in 0..MaxSlots},
          list \in UNION {[1..n -> AvailAssignments] : n \in 0..MaxSlots},
          c \in AvailCandidates, m \in {0, 30} :
          call = [fn |-> "isExecutorAvailable",
                  executor |-> [id |-> "u1", name |-> "U1", role |-> <<>>,
                                level |-> <<>>,
                                occupied |-> Join(formatSlots(slots), ",")],
                  slots |-> slots,
                  date |-> at(AvailDay, truncate(c[1]), m),
                  startHour |-> c[1], endHour |-> c[2],
                  currentAssignments |-> list]
    /\ result = NoResult

CallIsExecutorAvailable ==
    /\ call.fn = "isExecutorAvailable"
    /\ result = NoResult
    /\ result' = [fn |-> "isExecutorAvailable",
                  value |-> isExecutorAvailable(call.executor, call.date,
                                                call.startHour, call.endHour,
                                                call.currentAssignments)]
    /\ UNCHANGED <<runVars, call>>

NextAvail == CallIsExecutorAvailable

SpecAvail == InitAvail /\ [][NextAvail]_vars

(***************************************************************************)
(* Harness: formatDateTime on drawn timestamps, then parseDate on the text *)
(* it wrote.                                                               *)
(***************************************************************************)
\* days since 01.01.2025: ends of months, the days of the runs, new years
DateDays == {0, 30, 31, 58, 59, 303, 323, 324, 333, 334, 364, 365, 729}
DateHours == {0, 9, 13, 18, 23}
DateMinutes == {0, 15, 45}

InitDate ==
    /\ RunIdle
    /\ \E d \in DateDays, h \in DateHours, m \in DateMinutes :
          call = [fn |-> "formatDateTime", date |-> at(d, h, m)]
    /\ result = NoResult

CallFormatDateTime ==
    /\ call.fn = "formatDateTime"
    /\ result = NoResult
    /\ result' = [fn |-> "formatDateTime", value |-> formatDateTime(call.date)]
    /\ UNCHANGED <<runVars, call>>

CallParseDate ==
    /\ result.fn = "formatDateTime"
    /\ result' = [fn |-> "parseDate", text |-> result.value,
                  value |-> parseDate(result.value)]
    /\ UNCHANGED <<runVars, call>>

NextDate == CallFormatDateTime \/ CallParseDate

SpecDate == InitDate /\ [][NextDate]_vars

(***************************************************************************)
(* calculateEndTime under any calendar of the settings source: the rows    *)
(* are texts, read by lines 403-407, and the working day they describe may *)
(* be empty or inverted or start before midnight, the lunch hour may lie   *)
(* outside of it.                                                          *)
(***************************************************************************)
AnyDayStarts == {None, <<"8">>, <<"1", "8">>, <<"2", "0">>, <<"-", "5">>}
AnyDayEnds == {None, <<"1", "7">>, <<"9">>}
AnyLunchStarts == {None, <<"1", "2">>, <<"2", "0">>, <<"2", "3">>}
AnyStartHours == {0, 9, 13, 17, 18, 20}
AnyStartMinutes == {0, 30}
AnyDurations == {30, 240, 480, 600}

settingRows(code, value) == IF value = None THEN <<>> ELSE <<settingRow(code, value)>>

InitCalcAny ==
    /\ RunIdle
    /\ \E h \in AnyStartHours, m \in AnyStartMinutes, d \in AnyDurations,
          ds \in AnyDayStarts, de \in AnyDayEnds, ls \in AnyLunchStarts :
          call = [fn |-> "calculateEndTime", startTime |-> h * 60 + m,
                  durationMinutes |-> Num(d),
                  settings |-> buildSettingsMap(settingRows("day_start", ds)
                                                  \o settingRows("day_end", de)
                                                  \o settingRows("lunch_start", ls))]
    /\ result = NoResult

SpecCalcAny == InitCalcAny /\ [][NextCalc]_vars

(***************************************************************************)
(* Claims about calculateEndTime, under SpecCalc.                          *)
(***************************************************************************)
CalcReturned == result.fn = "calculateEndTime"
CalcDS == calcDayStart(call.settings)
CalcDE == calcDayEnd(call.settings)
CalcLS == calcLunchStart(call.settings)
CalcOrdered == CalcDS < CalcLS /\ CalcLS < CalcDE

CalcStartInWindow ==
    /\ getHours(call.startTime) >= CalcDS
    /\ getHours(call.startTime) < CalcDE

\* inside the daily window and outside the lunch hour
CalcStartWorking == CalcStartInWindow /\ getHours(call.startTime) # CalcLS

\* inside the daily window and not after the first instant of the lunch hour
CalcStartNotInsideLunch ==
    /\ CalcStartInWindow
    /\ ~(getHours(call.startTime) = CalcLS /\ getMinutes(call.startTime) > 0)

\* C2 as stated, on the starts that are working instants: for an ordered
\* calendar, a start inside the work window and a positive duration, the hour
\* of the returned timestamp is not the lunch-start hour and lies in
\* [dayStart, dayEnd).
C2_AsStated ==
    (CalcReturned /\ CalcOrdered /\ CalcStartWorking /\ gt(call.durationMinutes, Zero))
        => /\ getHours(result.value) # CalcLS
           /\ getHours(result.value) >= CalcDS
           /\ getHours(result.value) < CalcDE

\* a number of whole minutes
wholeMinutes(x) == x # NaN /\ x[1] % Scale = 0

\* C2 amended: for an ordered calendar, a start inside the work window that
\* is not past the first instant of the lunch hour, and a positive duration,
\* the returned time of day lies in [dayStart:00, lunchStart:00] or in
\* [lunchStart+1:00, dayEnd:00], and not at dayStart:00 or lunchStart+1:00
\* when the duration is a whole number of minutes; a duration that exactly
\* fills the segment of a working start returns the segment's end,
\* lunchStart:00 or dayEnd:00.
C2_EndInsideSegments ==
    (/\ CalcReturned /\ CalcOrdered /\ CalcStartNotInsideLunch
     /\ gt(call.durationMinutes, Zero))
        => /\ \/ /\ minuteOfDay(result.value) >= CalcDS * 60
                 /\ minuteOfDay(result.value) <= CalcLS * 60
              \/ /\ minuteOfDay(result.value) >= (CalcLS + 1) * 60
                 /\ minuteOfDay(result.value) <= CalcDE * 60
           /\ wholeMinutes(call.durationMinutes)
                 => minuteOfDay(result.value) \notin {CalcDS * 60, (CalcLS + 1) * 60}
           /\ (/\ CalcStartWorking
               /\ call.durationMinutes =
                     Num((IF getHours(call.startTime) < CalcLS THEN CalcLS ELSE CalcDE) * 60
                           - minuteOfDay(call.startTime)))
                 => /\ result.value = call.startTime + truncate(call.durationMinutes)
                    /\ minuteOfDay(result.value) \in {CalcLS * 60, CalcDE * 60}

\* C2 witness: a morning start whose duration exactly fills the morning has
\* returned lunchStart:00, and an afternoon one dayEnd:00 in another run.
C2_Witness ==
    /\ CalcReturned /\ CalcOrdered /\ CalcStartWorking
    /\ gt(call.durationMinutes, Zero)
    /\ getHours(call.startTime) < CalcLS
    /\ minuteOfDay(result.value) = CalcLS * 60

\* working minutes in [0, t) of a calendar ds < ls < de
WorkedBefore(t, ds, de, ls) ==
    getDay(t) * ((de - ds - 1) * 60)
      + Min(Max(minuteOfDay(t) - ds * 60, 0), (ls - ds) * 60)
      + Min(Max(minuteOfDay(t) - (ls + 1) * 60, 0), (de - ls - 1) * 60)

\* the working minutes between the start and the returned timestamp
CalcWorked ==
    WorkedBefore(result.value, CalcDS, CalcDE, CalcLS)
      - WorkedBefore(call.startTime, CalcDS, CalcDE, CalcLS)

\* C3: for an ordered calendar, a working start and a positive duration d
\* there are exactly d working minutes between the start and the returned
\* timestamp; {9, 18, 13}, 09:00 and 600 give the next day 11:00; a zero or
\* negative duration returns the start.
C3_WorkingMinutesEqualDuration ==
    CalcReturned =>
        /\ (CalcOrdered /\ CalcStartWorking /\ gt(call.durationMinutes, Zero))
              => Num(CalcWorked) = call.durationMinutes
        /\ (/\ CalcDS = 9 /\ CalcDE = 18 /\ CalcLS = 13
            /\ call.startTime = 9 * 60 /\ call.durationMinutes = Num(600))
              => result.value = DayMinutes + 11 * 60
        /\ le(call.durationMinutes, Zero) => result.value = call.startTime

\* what holds in place of C3: the working minutes between the start and the
\* returned timestamp are the whole minutes of the duration
C3_WholeMinutesWorked ==
    CalcReturned =>
        /\ (CalcOrdered /\ CalcStartWorking /\ gt(call.durationMinutes, Zero))
              => CalcWorked = truncate(call.durationMinutes)
        /\ (/\ CalcDS = 9 /\ CalcDE = 18 /\ CalcLS = 13
            /\ call.startTime = 9 * 60 /\ call.durationMinutes = Num(600))
              => result.value = DayMinutes + 11 * 60
        /\ le(call.durationMinutes, Zero) => result.value = call.startTime

\* the 600-minute scenario has run over lunch and into the next day
C3_Witness ==
    /\ CalcReturned
    /\ CalcDS = 9 /\ CalcDE = 18 /\ CalcLS = 13
    /\ call.startTime = 9 * 60 /\ call.durationMinutes = Num(600)
    /\ result.value = DayMinutes + 11 * 60

(***************************************************************************)
(* Claims about a run of scheduleTasks, under Spec.                        *)
(***************************************************************************)
\* the working rows as they were fetched
fetchedWorking ==
    IF ~isList(projectData) THEN <<>>
    ELSE [k \in 1..Len(positionsFrom(projectData, isWorkingRow, 1)) |->
             projectData[positionsFrom(projectData, isWorkingRow, 1)[k]]]

\* the days the runs of the model reach
RunDays == AvailDay..(AvailDay + 4)

\* the minutes of day d that executor e is occupied or assigned, one interval
\* for each occupied slot of that date and each assignment that covers the day
occupiedIntervals(e, d) ==
    LET slots == parseOccupiedTime(executors[e].occupied)
    IN {[kind |-> "occupied", n |-> i, lo |-> truncate(slots[i].startHour) * 60,
         hi |-> truncate(slots[i].endHour) * 60] :
          i \in {j \in 1..Len(slots) :
                   /\ slots[j].date = formatDateShort(d * DayMinutes)
                   /\ slots[j].startHour # NaN /\ slots[j].endHour # NaN}}

\* an assignment whose start or end is an Invalid Date covers no minute
assignedIntervals(e, d) ==
    {[kind |-> "assigned", n |-> i,
      lo |-> Max(assignments[i].startTime - d * DayMinutes, 0),
      hi |-> Min(assignments[i].endTime - d * DayMinutes, DayMinutes)] :
       i \in {j \in 1..Len(assignments) :
                /\ assignments[j].executorId = executors[e].id
                /\ assignments[j].startTime # InvalidDate
                /\ assignments[j].endTime # InvalidDate
                /\ assignments[j].startTime < (d + 1) * DayMinutes
                /\ assignments[j].endTime > d * DayMinutes}}

IntervalsOverlap(a, b) == a.lo < b.hi /\ b.lo < a.hi

\* C1: after a completed run, for every resource and every date, the occupied
\* hour intervals of the resource on the date and the intervals of the
\* assignments created for it that cover the date do not overlap pairwise.
C1_NoDoubleBooking ==
    pc = "done" =>
        \A e \in 1..Len(executors), d \in RunDays :
            \A a \in occupiedIntervals(e, d) \cup assignedIntervals(e, d),
               b \in occupiedIntervals(e, d) \cup assignedIntervals(e, d) :
                a # b => ~IntervalsOverlap(a, b)

\* the assignments created for the items of a group
groupItemIds(g) ==
    {itemIdOf(workingProject[taskGroups[g].items[k]]) :
        k \in 1..Len(taskGroups[g].items)}
groupAssignments(g) ==
    {i \in 1..Len(assignments) : assignments[i].taskId \in groupItemIds(g)}
inOrder(g) == \E k \in 1..Len(orderedTasks) : orderedTasks[k] = g

\* a <= b and a >= b on two Dates: false when either is an Invalid Date
dateLe(a, b) == a # InvalidDate /\ b # InvalidDate /\ a <= b
dateGe(a, b) == a # InvalidDate /\ b # InvalidDate /\ a >= b

\* group b names group a as its predecessor and both are in the produced order
follows(a, b) ==
    /\ a # b /\ inOrder(a) /\ inOrder(b)
    /\ taskGroups[b].previousTask = taskGroups[a].taskName

\* C4: when group B names group A as its predecessor and both are in the
\* produced order, every assignment of an item of A starts at or before every
\* assignment of an item of B.
C4_ChainOrderRespected ==
    pc \in {"scheduling", "done"} =>
        \A a \in 1..Len(taskGroups), b \in 1..Len(taskGroups) :
            follows(a, b)
              => \A i \in groupAssignments(a), j \in groupAssignments(b) :
                    dateLe(assignments[i].startTime, assignments[j].startTime)

\* what holds in place of C4: the order is respected among the assignments
\* whose start is a valid Date, and an assignment of A never starts at an
\* Invalid Date when one of B starts at a valid one
C4_ChainOrderOfValidStarts ==
    pc \in {"scheduling", "looping", "done", "failed"} =>
        \A a \in 1..Len(taskGroups), b \in 1..Len(taskGroups) :
            follows(a, b)
              => \A i \in groupAssignments(a), j \in groupAssignments(b) :
                    assignments[j].startTime # InvalidDate
                      => dateLe(assignments[i].startTime, assignments[j].startTime)

\* a run in which a group with two scheduled operations is followed by the
\* group that names it is done
C4_Witness ==
    /\ pc = "done"
    /\ \E a \in 1..Len(taskGroups), b \in 1..Len(taskGroups) :
          /\ follows(a, b)
          /\ Cardinality({assignments[i].taskId : i \in groupAssignments(a)}) = 2
          /\ groupAssignments(b) # {}
          /\ \E i \in groupAssignments(a), j \in groupAssignments(b) :
                /\ dateLe(assignments[i].startTime, assignments[j].startTime)
                /\ assignments[i].startTime # assignments[j].startTime

\* a start text the claim calls readable: it holds a DD.MM.YYYY date
StartReadable(text) == text \in {Start21, Start22, Start24, <<"2", "1", ".", "1", "1", ".", "2", "0", "2", "5", " ", "1", "0", ":", "3", "0", ":", "0", "0">>}

\* the four reports have arrived: the run is past line 401
reportsArrived == settingsMap # <<>>

\* each of the four reports is a list
reportsAreLists ==
    /\ isList(projectData) /\ isList(settings)
    /\ isList(parameterDictionary) /\ isList(executors)

FatalInput ==
    /\ reportsArrived /\ reportsAreLists
    /\ \/ Len(fetchedWorking) = 0
       \/ ~StartReadable(fetchedWorking[1].start)

startTimeMarked ==
    \/ \E i \in 1..Len(logged) : logged[i].kind = "would save start time"
    \/ \E i \in 1..Len(saved) : saved[i].field \in {"t2665", "t798"}

\* C5: with an empty working set or a start date that is missing or cannot
\* be read, the run never reaches the chain or the scheduling loop, and once
\* it has failed there is no assignment, no start time marked for
\* persistence, no calendar, and exactly one failure message, which is on
\* the console and in the .content element of the page.
C5_FatalInputFailsBeforeScheduling ==
    FatalInput =>
        /\ pc \in {"normatives", "failed"}
        /\ pc = "failed" =>
              /\ assignments = <<>> /\ gi = 0 /\ orderedTasks = <<>>
              /\ ~startTimeMarked
              /\ content = (IF contentDiv THEN "error" ELSE "")
              /\ Len(errors) = 1
              /\ errors[1] \in {"No working project found",
                                "Project start date not found"}

\* C5 witness: a run whose first working row has no readable start has failed
\* after the normatives were resolved
C5_Witness ==
    /\ pc = "failed"
    /\ FatalInput
    /\ Len(fetchedWorking) > 0
    /\ idx > Len(workingProject)
    /\ errors = <<"Project start date not found">>
    /\ content = "error"

\* the least whole number of hours that is not less than d minutes
hoursHolding(d) ==
    IF d = NaN THEN NaN ELSE Num((d[1] + 60 * Scale - 1) \div (60 * Scale))

\* the executors that match the item and are free in the hour window of the
\* cursor, as positions
eligibleExecutors(item) ==
    {e \in 1..Len(executors) :
        /\ matchesParameters(executors[e], parseParameters(item.params),
                             parameterDictionary)
        /\ isExecutorAvailable(executors[e], currentTime, hourOf(currentTime),
                               plus(hourOf(currentTime),
                                    hoursHolding(normativeMinutes(item))),
                               assignments)}

\* the first k of a set of positions
firstOf(S, k) == {e \in S : Cardinality({f \in S : f < e}) < k}

\* a step of ScheduleItem gives the item the first k eligible executors, one
\* assignment each in enumeration order, writes a warning iff short is
\* true, and lets the run go on
selectsFirst(item, k, short) ==
    LET chosen == firstOf(eligibleExecutors(item), k)
        new == SubSeq(assignments', Len(assignments) + 1, Len(assignments'))
        added == SubSeq(logged', Len(logged) + 1, Len(logged'))
    IN /\ Len(new) = Cardinality(chosen)
       /\ \A j \in 1..Len(new) :
             /\ new[j].taskId = itemIdOf(item)
             /\ \E e \in chosen :
                   /\ new[j].executorId = executors[e].id
                   /\ Cardinality({f \in chosen : f < e}) = j - 1
       /\ short <=> (\E n \in 1..Len(added) : added[n].kind = "warning")
       /\ pc' = "scheduling" /\ errors' = errors /\ content' = content

\* the step of ScheduleItem is one that goes through the loop body: it does
\* not throw for a report that is no list and its call of calculateEndTime
\* returns
itemScheduled == ScheduleItem /\ pc' = pc

\* C6: a scheduled item with required count r gets exactly the first
\* k = min(r, number of eligible) eligible executors in enumeration order,
\* one assignment each; a warning is logged iff k < r, and the run goes on.
\* Read for every count that is a number.
C6_FirstFitSelection ==
    [][(itemScheduled /\ requiredExecutors(currentItem) # NaN) =>
        LET r == truncate(requiredExecutors(currentItem))
            k == Min(r, Cardinality(eligibleExecutors(currentItem)))
        IN selectsFirst(currentItem, k, k < r)
    ]_vars

\* what holds in place of C6: the claim for a count of 1 or more; an item
\* with a count of 0 gets the first eligible executor, one with a count
\* that is no number gets every eligible executor, both without a warning
C6_FirstFitByCount ==
    [][itemScheduled =>
        LET r == requiredExecutors(currentItem)
            n == Cardinality(eligibleExecutors(currentItem))
        IN IF r = NaN THEN selectsFirst(currentItem, n, FALSE)
           ELSE IF truncate(r) < 1 THEN selectsFirst(currentItem, Min(1, n), FALSE)
           ELSE selectsFirst(currentItem, Min(truncate(r), n), n < truncate(r))
    ]_vars

\* an item that requires two executors got the only eligible one and a
\* warning, and the run is done
C6_Witness ==
    /\ pc = "done"
    /\ \E w \in 1..Len(workingProject) :
          /\ requiredExecutors(workingProject[w]) = Num(2)
          /\ Cardinality({i \in 1..Len(assignments) :
                 assignments[i].taskId = itemIdOf(workingProject[w])}) = 1
          /\ \E n \in 1..Len(logged) :
                /\ logged[n].kind = "warning"
                /\ logged[n].item = itemIdOf(workingProject[w])

normativesResolved ==
    pc \notin FetchPositions \cup {"rejected", "loaded", "failed"} /\ idx > Len(workingProject)

\* C7: an item that was fetched with a duration keeps exactly that duration,
\* and the body of the resolution loop, run again on the resolved items,
\* changes none of them.
C7_ResolutionIdempotent ==
    normativesResolved =>
        \A i \in 1..Len(workingProject) :
            /\ Truthy(normativeOf(fetchedWorking[i]))
                  => workingProject[i] = fetchedWorking[i]
            /\ resolveItem(workingProject[i], templateProject) = workingProject[i]

\* C7 witness: one item kept its 50 although the template holds its
\* operation, the other was resolved from the template
C7_Witness ==
    /\ normativesResolved
    /\ Len(workingProject) = 2
    /\ normativeOf(fetchedWorking[1]) = <<"5", "0">>
    /\ normativeOf(workingProject[1]) = <<"5", "0">>
    /\ \E t \in 1..Len(templateProject) :
          /\ templateProject[t].task = TaskA /\ templateProject[t].op = OpX
          /\ templateProject[t].normOp = <<"3", "0">>
    /\ normativeOf(fetchedWorking[2]) = None
    /\ normativeOf(workingProject[2]) = <<"1", "2", "0">>

\* the first template item that matches an item structurally, 0 without one
structuralMatches(item) ==
    {t \in 1..Len(templateProject) :
        /\ templateProject[t].task = item.task
        /\ item.opId # None => templateProject[t].op = item.op}
firstStructuralMatch(item) ==
    IF structuralMatches(item) = {} THEN 0
    ELSE CHOOSE t \in structuralMatches(item) : \A u \in structuralMatches(item) : t <= u

\* the reference duration of a template item for an item, 0 when it has none
referenceDuration(t, item) ==
    LET text == IF item.opId # None THEN templateProject[t].normOp
                ELSE templateProject[t].normTask
    IN IF text = None THEN 0 ELSE DigitsValue(text)

\* the quantity of an item, 1 when it has none
quantity(item) ==
    IF item.qty # None THEN DigitsValue(item.qty)
    ELSE IF item.qty2 # None THEN DigitsValue(item.qty2)
    ELSE 1

hasPositiveReference(item) ==
    /\ firstStructuralMatch(item) # 0
    /\ referenceDuration(firstStructuralMatch(item), item) > 0

\* C8: a working item fetched without a duration gets the reference duration
\* of the first template item that matches it structurally, times its
\* quantity, when that template item has a positive reference duration;
\* otherwise it has no duration (none, or zero) and gets no assignment.
C8_ResolvedFromFirstMatch ==
    normativesResolved =>
        \A i \in 1..Len(workingProject) :
            ~Truthy(normativeOf(fetchedWorking[i])) =>
                IF hasPositiveReference(fetchedWorking[i])
                THEN /\ normativeOf(workingProject[i]) # None
                     /\ DigitsValue(normativeOf(workingProject[i])) =
                          referenceDuration(firstStructuralMatch(fetchedWorking[i]),
                                            fetchedWorking[i])
                            * quantity(fetchedWorking[i])
                ELSE /\ normativeOf(workingProject[i]) \in {None, <<"0">>}
                     /\ firstStructuralMatch(fetchedWorking[i]) = 0
                           => normativeOf(workingProject[i]) = None
                     /\ \A a \in 1..Len(assignments) :
                           assignments[a].taskId # itemIdOf(workingProject[i])

\* C8 witness: per-unit 30 and quantity 4 gave 120, next to an item that kept
\* its 50, and the run is done
C8_Witness ==
    /\ pc = "done"
    /\ Len(workingProject) = 2
    /\ normativeOf(workingProject[1]) = <<"5", "0">>
    /\ normativeOf(fetchedWorking[2]) = None
    /\ fetchedWorking[2].qty = <<"4">>
    /\ hasPositiveReference(fetchedWorking[2])
    /\ referenceDuration(firstStructuralMatch(fetchedWorking[2]), fetchedWorking[2]) = 30
    /\ normativeOf(workingProject[2]) = <<"1", "2", "0">>
    /\ \E a \in 1..Len(assignments) : assignments[a].duration = Num(120)

(***************************************************************************)
(* Claims about persistence.  A persistence request is a call of saveData  *)
(* (lines 60-89), kept in saved.  DEBUG is true as the code ships (line     *)
(* 22): at each of its two save points (lines 461-465 and 611-615) the     *)
(* code writes a "Would save" line in place of the call.  A mark is either *)
(* of the two, a request or the line written in its place.                 *)
(***************************************************************************)
normativeMarks(id) ==
    Cardinality({n \in 1..Len(logged) :
                    logged[n].kind = "would save normative" /\ logged[n].item = id})
      + Cardinality({n \in 1..Len(saved) :
                        saved[n].field = "t3094" /\ saved[n].item = id})

startTimeMarks(id) ==
    Cardinality({n \in 1..Len(logged) :
                    logged[n].kind = "would save start time" /\ logged[n].item = id})
      + Cardinality({n \in 1..Len(saved) :
                        saved[n].field \in {"t2665", "t798"} /\ saved[n].item = id})

itemIds == {itemIdOf(fetchedWorking[i]) : i \in 1..Len(fetchedWorking)}

normativeMarked == \E id \in itemIds : normativeMarks(id) > 0

\* the fetched item has no duration and its first structural match in the
\* template carries a reference duration
derivable(item) ==
    /\ ~Truthy(normativeOf(item))
    /\ firstStructuralMatch(item) # 0
    /\ (IF item.opId # None THEN templateProject[firstStructuralMatch(item)].normOp
        ELSE templateProject[firstStructuralMatch(item)].normTask) # None

\* the rows the resolution loop has gone through
resolvedSoFar ==
    IF pc \in FetchPositions \cup {"rejected", "loaded"} THEN {}
    ELSE {i \in 1..Len(fetchedWorking) : i < idx}

\* the places <<group, item>> of the produced order the scheduling loop has
\* gone through (gi is 0 until the loop begins, and stays where the loop was
\* left), and those among them that had a duration
processedPlaces ==
    {p \in (1..Len(orderedTasks)) \X (1..Len(workingProject)) :
        /\ p[2] <= Len(taskGroups[orderedTasks[p[1]]].items)
        /\ p[1] < gi \/ (p[1] = gi /\ p[2] < ii)}
placeItem(p) == workingProject[taskGroups[orderedTasks[p[1]]].items[p[2]]]
scheduledPlaces ==
    {p \in processedPlaces : ~strictEquals(normativeMinutes(placeItem(p)), Zero)}

passUnfinished ==
    \/ pc \in FetchPositions \cup {"rejected", "loaded", "normatives", "ordering"}
    \/ pc = "scheduling" /\ gi <= Len(orderedTasks)

\* the scheduling pass has finished: the loop of line 541 has been left
passFinished == gi > Len(orderedTasks) /\ pc \in {"scheduling", "done", "failed"}

\* C12: no persistence request is issued while normatives are resolved,
\* while the chain is ordered, while items remain to be scheduled, in a run
\* that has failed, or in a run that is inside a call that never returns: a
\* request has only ever been issued by a run that has finished its
\* scheduling pass and has not failed.
C12_NoRequestBeforeThePassEnds ==
    /\ (passUnfinished \/ pc \in {"failed", "looping"}) => saved = <<>>
    /\ saved # <<>> => (passFinished /\ pc # "failed")

\* a normative was derived and an item was scheduled, items remain to be
\* scheduled, and no request has been issued
C12_Witness ==
    /\ pc = "scheduling" /\ gi <= Len(orderedTasks)
    /\ \E n \in 1..Len(logged) : logged[n].kind = "would save normative"
    /\ \E n \in 1..Len(logged) : logged[n].kind = "would save start time"
    /\ saved = <<>>

\* the row is an item of a group of the produced order
inProducedOrder(i) ==
    \E k \in 1..Len(orderedTasks) :
        \E j \in 1..Len(taskGroups[orderedTasks[k]].items) :
            taskGroups[orderedTasks[k]].items[j] = i

\* the row has a duration other than zero after the resolution
hasDuration(i) ==
    /\ normativeOf(workingProject[i]) # None
    /\ ~strictEquals(parseFloat(normativeOf(workingProject[i])), Zero)

\* the calls of the sink for item id that save one of the fields
sinkCalls(id, fields) ==
    Cardinality({n \in 1..Len(saved) : saved[n].item = id /\ saved[n].field \in fields})

\* the rows of the working set that carry item id
rowsOfItem(id) == {i \in 1..Len(workingProject) : itemIdOf(workingProject[i]) = id}

\* C13 as stated: after a completed run the sink has been called exactly
\* once for each normative derived from the template in this run and once
\* for the start time of each item scheduled.
C13_AsStated ==
    pc = "done" =>
        \A id \in itemIds :
            /\ sinkCalls(id, {"t3094"}) =
                 Cardinality({i \in rowsOfItem(id) : derivable(fetchedWorking[i])})
            /\ sinkCalls(id, {"t2665", "t798"}) =
                 Cardinality({i \in rowsOfItem(id) : inProducedOrder(i) /\ hasDuration(i)})

\* C13 amended: the sink is never called.  At every moment of a run each
\* item has one "Would save normative" line iff the resolution loop has
\* already derived its normative, and as many "Would save start time" lines
\* as times the scheduling loop has already scheduled it, every line of the
\* first kind before every line of the second.  When the scheduling pass has
\* finished, in a run that completes or fails after it, each item has
\* exactly one line for its normative when that was derived from the
\* template in this run and none when it was fetched with a normative or
\* could not be derived, and exactly one line for its start time when it
\* was scheduled and none when it was skipped for a zero or missing duration
\* or is not in the produced order.
C13_MarkedOncePerComputedValue ==
    /\ saved = <<>>
    /\ \A id \in itemIds :
          /\ normativeMarks(id) =
               Cardinality({i \in resolvedSoFar :
                               itemIdOf(fetchedWorking[i]) = id
                                 /\ derivable(fetchedWorking[i])})
          /\ startTimeMarks(id) =
               Cardinality({p \in scheduledPlaces : itemIdOf(placeItem(p)) = id})
    /\ \A m \in 1..Len(logged), n \in 1..Len(logged) :
          (logged[m].kind = "would save normative"
             /\ logged[n].kind = "would save start time") => m < n
    /\ passFinished =>
          \A id \in itemIds :
             /\ normativeMarks(id) =
                  Cardinality({i \in rowsOfItem(id) : derivable(fetchedWorking[i])})
             /\ (\A i \in rowsOfItem(id) : Truthy(normativeOf(fetchedWorking[i])))
                   => normativeMarks(id) = 0
             /\ startTimeMarks(id) =
                  Cardinality({i \in rowsOfItem(id) : inProducedOrder(i) /\ hasDuration(i)})
             /\ (\A i \in rowsOfItem(id) : ~hasDuration(i)) => startTimeMarks(id) = 0

\* a completed run in which the first item kept its fetched normative (no
\* line for it, one for its start time) and the second got its normative
\* from the template (one line of each kind), and the sink was not called
C13_Witness ==
    /\ pc = "done"
    /\ saved = <<>>
    /\ Len(workingProject) = 2
    /\ Truthy(normativeOf(fetchedWorking[1]))
    /\ normativeMarks(itemIdOf(workingProject[1])) = 0
    /\ startTimeMarks(itemIdOf(workingProject[1])) = 1
    /\ derivable(fetchedWorking[2])
    /\ normativeMarks(itemIdOf(workingProject[2])) = 1
    /\ startTimeMarks(itemIdOf(workingProject[2])) = 1

(***************************************************************************)
(* Claims about the chain of task groups.                                  *)
(***************************************************************************)
\* C14: the chain loop stops after finitely many rounds because it puts each
\* task group into the produced order at most once: at no moment of a run
\* does the produced order hold a group twice or more entries than there are
\* groups, whatever names and predecessors the groups have.
C14_EachGroupAtMostOnce ==
    /\ \A m \in 1..Len(orderedTasks), n \in 1..Len(orderedTasks) :
          m # n => orderedTasks[m] # orderedTasks[n]
    /\ Len(orderedTasks) <= Len(taskGroups)

\* the groups without a predecessor, and the groups that name group g
headGroups == {g \in 1..Len(taskGroups) : taskGroups[g].previousTask = None}
successorsOf(g) ==
    {h \in 1..Len(taskGroups) : taskGroups[h].previousTask = taskGroups[g].taskName}
firstIn(S) == CHOOSE g \in S : \A h \in S : g <= h

orderProduced == pc \in {"scheduling", "looping", "done"}

\* C17: once the order is produced it is the first group without a
\* predecessor, each further entry is the first group that names the entry
\* before it, and no group names the last entry; it is empty when every group
\* has a predecessor.  A group outside the order gets no assignment and no
\* start time mark for any of its items, and no error is raised: the run
\* does not fail and the console has no error line for it (the one line a
\* completed run can have is that of a page without a .content element).
C17_OrderIsTheChainFromTheHead ==
    orderProduced =>
        /\ headGroups = {} => orderedTasks = <<>>
        /\ headGroups # {} =>
              /\ Len(orderedTasks) >= 1
              /\ orderedTasks[1] = firstIn(headGroups)
              /\ \A k \in 1..(Len(orderedTasks) - 1) :
                    /\ successorsOf(orderedTasks[k]) # {}
                    /\ orderedTasks[k + 1] = firstIn(successorsOf(orderedTasks[k]))
              /\ successorsOf(orderedTasks[Len(orderedTasks)]) = {}
        /\ \A g \in 1..Len(taskGroups) :
              ~inOrder(g) =>
                 \A id \in groupItemIds(g) :
                    /\ startTimeMarks(id) = 0
                    /\ \A a \in 1..Len(assignments) : assignments[a].taskId # id
        /\ errors = (IF pc = "done" /\ ~contentDiv
                     THEN <<"Content div not found!">> ELSE <<>>)

\* C17 witness: a completed run over three groups of which the first without
\* a predecessor and its successor were scheduled and the third, which is not
\* reachable from the head, was left out
C17_Witness ==
    /\ pc = "done"
    /\ Len(taskGroups) = 3 /\ Len(orderedTasks) = 2
    /\ \A k \in 1..2 : groupAssignments(orderedTasks[k]) # {}
    /\ \E g \in 1..3 : ~inOrder(g) /\ groupAssignments(g) = {}

(***************************************************************************)
(* Claims about the time cursor.                                           *)
(***************************************************************************)
\* the day a start text of the runs declares
declaredDay(text) ==
    IF text = Start22 THEN AvailDay + 1
    ELSE IF text = Start24 THEN AvailDay + 3
    ELSE AvailDay

\* the day-start hour the settings rows give: the last row of the code, 9
\* when there is none or it says 0
hourWritten(text) ==
    IF Head(text) = "-" THEN -DigitsValue(Tail(text)) ELSE DigitsValue(text)
declaredDayStart ==
    LET rows == {i \in 1..Len(settings) : settings[i].code = "day_start"}
        last == CHOOSE i \in rows : \A j \in rows : j <= i
    IN IF rows = {} \/ hourWritten(settings[last].value) = 0 THEN 9
       ELSE hourWritten(settings[last].value)

\* the scheduling loop is about to look at its first item
cursorInitialised == pc = "scheduling" /\ gi = 1 /\ ii = 1

\* the first row of the first group of the produced order
chainHeadRow == workingProject[taskGroups[orderedTasks[1]].items[1]]

\* C16 as stated: the cursor starts at the declared start date of the first
\* group of the produced order, at the day-start hour, wherever the rows of
\* that group are in the working set.
C16_AsStated ==
    (cursorInitialised /\ Len(orderedTasks) > 0)
        => currentTime = at(declaredDay(chainHeadRow.start), declaredDayStart, 0)

\* C16 amended: the cursor starts at the start date that the first loaded
\* working row declares, at the day-start hour, whichever group the chain
\* begins with and also when the produced order is empty.
C16_CursorStartsAtFirstLoadedRow ==
    cursorInitialised
        => currentTime = at(declaredDay(workingProject[1].start), declaredDayStart, 0)

\* C16 witness: the chain begins with a group whose rows are not loaded first
\* and declare another start date than the first loaded row, and the cursor
\* is at the date of the first loaded row
C16_Witness ==
    /\ cursorInitialised /\ Len(orderedTasks) > 0
    /\ taskGroups[orderedTasks[1]].items[1] # 1
    /\ declaredDay(chainHeadRow.start) # declaredDay(workingProject[1].start)
    /\ currentTime = at(declaredDay(workingProject[1].start), declaredDayStart, 0)

\* the lines of a log that mark a value for persistence
isMark(entry) == entry.kind \in {"would save normative", "would save start time"}
marksIn(log) == SelectSeq(log, isMark)

\* C18: the step that skips an item with a zero or missing duration leaves
\* the assignment list, the cursor and the values marked for persistence as
\* they were, raises no error and lets the run go on.
C18_SkipChangesNothing ==
    [][SkipItem =>
          /\ assignments' = assignments
          /\ currentTime' = currentTime
          /\ marksIn(logged') = marksIn(logged)
          /\ saved' = saved
          /\ workingProject' = workingProject
          /\ errors' = errors /\ content' = content /\ pc' = "scheduling"
    ]_vars

\* C18 witness: a completed run that skipped one item and scheduled another
C18_Witness ==
    /\ pc = "done"
    /\ \E n \in 1..Len(logged) : logged[n].kind = "skip"
    /\ assignments # <<>>
    /\ errors = <<>>

\* the step that schedules the current item, told from the guards of the loop
\* body and the move of the loop position
schedulesItem ==
    /\ pc = "scheduling"
    /\ gi <= Len(orderedTasks)
    /\ ~strictEquals(normativeMinutes(currentItem), Zero)
    /\ <<gi, ii>>' # <<gi, ii>>

\* the start of the working day that follows the day of t
nextWorkingMorning(t) ==
    ((t \div DayMinutes) + 1) * DayMinutes + calcDayStart(settingsMap) * 60

\* the Date is valid and at the hour the working day ends, to the minute
atDayEnd(t) == t # InvalidDate /\ minuteOfDay(t) = calcDayEnd(settingsMap) * 60

\* C19: after a scheduled item the cursor is the end time computed from the
\* cursor before it and the duration, except that a duration of at most 240
\* minutes with an end hour at or after the end of the day moves the cursor to
\* the next day at the start hour.  Hence after a duration of at most 240 the
\* hour of the cursor is below the end of the day, and a longer item that ends
\* at the end of the day leaves the cursor there.
C19_CursorAfterScheduledItem ==
    [][schedulesItem =>
          LET normative == normativeMinutes(currentItem)
              endTime == calculateEndTime(currentTime, normative, settingsMap)
              dayEnd == Num(calcDayEnd(settingsMap))
          IN /\ currentTime' =
                   IF le(normative, Num(240)) /\ ge(hourOf(endTime), dayEnd)
                   THEN nextWorkingMorning(endTime)
                   ELSE endTime
             /\ le(normative, Num(240)) => lt(hourOf(currentTime'), dayEnd)
             /\ (gt(normative, Num(240)) /\ atDayEnd(endTime)) => atDayEnd(currentTime')
    ]_vars

\* what holds of the cursor on every calendar: it is the computed end time or
\* the morning after it as the claim says, and the hour of the cursor after a
\* duration of at most 240 is below the end of the day unless the computed
\* end time is an Invalid Date, which the cursor then is as well
C19_CursorAfterItemWithValidEnd ==
    [][schedulesItem =>
          LET normative == normativeMinutes(currentItem)
              endTime == calculateEndTime(currentTime, normative, settingsMap)
              dayEnd == Num(calcDayEnd(settingsMap))
          IN /\ currentTime' =
                   IF le(normative, Num(240)) /\ ge(hourOf(endTime), dayEnd)
                   THEN nextWorkingMorning(endTime)
                   ELSE endTime
             /\ (le(normative, Num(240)) /\ endTime # InvalidDate
                   /\ calcDayStart(settingsMap) \in 0..(calcDayEnd(settingsMap) - 1))
                  => lt(hourOf(currentTime'), dayEnd)
             /\ endTime = InvalidDate => currentTime' = InvalidDate
             /\ (gt(normative, Num(240)) /\ atDayEnd(endTime)) => atDayEnd(currentTime')
    ]_vars

\* a completed run in which a long item ended at the end of the day and left
\* the cursor there, after a short item had been moved to the next morning
C19_Witness ==
    /\ pc = "done"
    /\ Len(assignments) >= 2
    /\ \E n \in 1..Len(assignments) :
          /\ le(assignments[n].duration, Num(240))
          /\ atDayEnd(assignments[n].endTime)
          /\ \E m \in 1..Len(assignments) :
                assignments[m].startTime = nextWorkingMorning(assignments[n].endTime)
    /\ gt(assignments[Len(assignments)].duration, Num(240))
    /\ currentTime = assignments[Len(assignments)].endTime
    /\ atDayEnd(currentTime)

\* a timestamp at which work can be done: a valid Date inside the working
\* day and not in the lunch hour of the calendar of the run
workingInstant(t) ==
    /\ t # InvalidDate
    /\ getHours(t) >= calcDayStart(settingsMap)
    /\ getHours(t) < calcDayEnd(settingsMap)
    /\ getHours(t) # calcLunchStart(settingsMap)

\* C21: the start of every assignment is a working instant: its hour lies in
\* [dayStart, dayEnd) and is not the lunch hour, whatever items were scheduled
\* before it.
C21_StartsAreWorkingInstants ==
    \A n \in 1..Len(assignments) : workingInstant(assignments[n].startTime)

\* the assignments added by a step
addedAssignments == (Len(assignments) + 1)..Len(assignments')

\* the cursor has not moved backward: it is where it was, or both Dates are
\* valid and the later is not before the earlier
notBackward(before, after) == after = before \/ dateGe(after, before)

\* C22: the cursor never moves backward and items follow one another: the
\* assignments made for one item all start at the cursor of that step and
\* end at calculateEndTime of it, every assignment made before has ended by
\* then, and the cursor after the item is not before that end.
C22_CursorMovesForward ==
    [][/\ notBackward(currentTime, currentTime')
       /\ schedulesItem =>
             LET endTime == calculateEndTime(currentTime,
                                normativeMinutes(currentItem), settingsMap)
             IN /\ SubSeq(assignments', 1, Len(assignments)) = assignments
                /\ \A n \in addedAssignments :
                      /\ assignments'[n].startTime = currentTime
                      /\ assignments'[n].endTime = endTime
                /\ \A n \in 1..Len(assignments) :
                      dateLe(assignments[n].endTime, currentTime)
                /\ dateGe(endTime, currentTime)
                /\ dateGe(currentTime', endTime)
    ]_vars

\* what holds on every calendar: the assignments made for one item all start
\* at the cursor of that step and end at calculateEndTime of it, and as long
\* as the computed end time is a valid Date the cursor does not move backward
\* and every assignment made before has ended by then; once an end time is
\* an Invalid Date the cursor is one for the rest of the run
C22_ForwardWhileDatesAreValid ==
    [][/\ currentTime = InvalidDate => currentTime' = InvalidDate
       /\ currentTime' # InvalidDate => notBackward(currentTime, currentTime')
       /\ schedulesItem =>
             LET endTime == calculateEndTime(currentTime,
                                normativeMinutes(currentItem), settingsMap)
             IN /\ SubSeq(assignments', 1, Len(assignments)) = assignments
                /\ \A n \in addedAssignments :
                      /\ assignments'[n].startTime = currentTime
                      /\ assignments'[n].endTime = endTime
                /\ currentTime' = InvalidDate <=> endTime = InvalidDate
                /\ endTime # InvalidDate =>
                      /\ \A n \in 1..Len(assignments) :
                            dateLe(assignments[n].endTime, currentTime)
                      /\ dateGe(endTime, currentTime)
                      /\ dateGe(currentTime', endTime)
    ]_vars

\* a completed run in which one item was given to two executors and a later
\* item starts at or after its end, on a later day
C22_Witness ==
    /\ pc = "done"
    /\ \E m \in 1..Len(assignments), n \in 1..Len(assignments),
          k \in 1..Len(assignments) :
          /\ m < n /\ n < k
          /\ assignments[m].taskId = assignments[n].taskId
          /\ assignments[m].executorId # assignments[n].executorId
          /\ assignments[m].startTime = assignments[n].startTime
          /\ assignments[m].endTime = assignments[n].endTime
          /\ assignments[k].taskId # assignments[n].taskId
          /\ dateGe(assignments[k].startTime, assignments[n].endTime)
          /\ getDay(assignments[k].startTime) > getDay(assignments[n].endTime)

(***************************************************************************)
(* Claims about grouping.                                                  *)
(***************************************************************************)

\* the groups exist from the end of grouping on
grouped == pc \in {"ordering", "scheduling", "done"}

\* the task ids of the working set, and the rows of one task
workingTaskIds == {workingProject[i].taskId : i \in 1..Len(workingProject)}
rowsOfTask(id) == {i \in 1..Len(workingProject) : workingProject[i].taskId = id}
operationRowsOfTask(id) == {i \in rowsOfTask(id) : workingProject[i].opId # None}
groupsOfTask(id) == {g \in 1..Len(taskGroups) : taskGroups[g].taskId = id}

\* a list of positions in rising order, without repetition
rising(list) == \A m \in 1..Len(list), n \in 1..Len(list) : m < n => list[m] < list[n]

\* C20: grouping gives exactly one group for each task id of the working set,
\* whatever the order of the rows: a task with operation rows has a group of
\* exactly these rows in their order, a task without has a group of one row.
C20_OneGroupPerTaskId ==
    grouped =>
       /\ \A g \in 1..Len(taskGroups) : taskGroups[g].taskId \in workingTaskIds
       /\ \A id \in workingTaskIds :
             /\ Cardinality(groupsOfTask(id)) = 1
             /\ \A g \in groupsOfTask(id) :
                   LET items == taskGroups[g].items
                   IN IF operationRowsOfTask(id) # {}
                      THEN /\ {items[n] : n \in 1..Len(items)} = operationRowsOfTask(id)
                           /\ rising(items)
                      ELSE /\ Len(items) = 1
                           /\ items[1] \in rowsOfTask(id)

\* C20 witness: a task whose bare row comes before its operation row is
\* grouped next to a task without operations
C20_Witness ==
    /\ grouped
    /\ Len(taskGroups) = 2
    /\ \E id \in workingTaskIds :
          /\ operationRowsOfTask(id) # {}
          /\ \E b \in rowsOfTask(id) \ operationRowsOfTask(id) :
                \A o \in operationRowsOfTask(id) : b < o
    /\ \E id \in workingTaskIds : operationRowsOfTask(id) = {}

(***************************************************************************)
(* Claims about the independence of the timestamps from the resources.     *)
(* The timeline below is computed from the working items, the groups, the  *)
(* produced order and the calendar alone; no executor, occupied interval,  *)
(* constraint string or dictionary enters it.  A run that agrees with it   *)
(* agrees with every run of the same items, calendar and start date.       *)
(***************************************************************************)

\* the rows of the working set in the order in which the loop visits them
RECURSIVE visitedFrom(_)
visitedFrom(g) ==
    IF g > Len(orderedTasks) THEN <<>>
    ELSE taskGroups[orderedTasks[g]].items \o visitedFrom(g + 1)
visited == visitedFrom(1)

\* the cursor before the k-th visited row, from the items and calendar alone
RECURSIVE timelineCursor(_)
timelineCursor(k) ==
    IF k = 1
    THEN (parseDate(workingProject[1].start) \div DayMinutes) * DayMinutes
            + calcDayStart(settingsMap) * 60
    ELSE LET before == timelineCursor(k - 1)
             normative == normativeMinutes(workingProject[visited[k - 1]])
             endTime == calculateEndTime(before, normative, settingsMap)
         IN IF strictEquals(normative, Zero) THEN before
            ELSE IF /\ le(normative, Num(240))
                    /\ ge(hourOf(endTime), Num(calcDayEnd(settingsMap)))
            THEN nextWorkingMorning(endTime)
            ELSE endTime

timelineEnd(k) ==
    calculateEndTime(timelineCursor(k),
                     normativeMinutes(workingProject[visited[k]]), settingsMap)

timelineScheduled ==
    {k \in 1..Len(visited) :
        ~strictEquals(normativeMinutes(workingProject[visited[k]]), Zero)}

\* the number of visited rows the scheduling loop has gone through
RECURSIVE rowsOfGroupsBefore(_)
rowsOfGroupsBefore(g) ==
    IF g <= 1 THEN 0
    ELSE Len(taskGroups[orderedTasks[g - 1]].items) + rowsOfGroupsBefore(g - 1)
rowsGoneThrough ==
    IF gi > Len(orderedTasks) THEN Len(visited)
    ELSE rowsOfGroupsBefore(gi) + ii - 1

\* the scheduling loop has begun: the run is in it, inside a call of
\* calculateEndTime that never returns, past it, or has failed in or after it
loopBegun == gi >= 1 /\ pc \in {"scheduling", "looping", "done", "failed"}

\* the start times marked for persistence, in the order of marking
startMarks == SelectSeq(logged, LAMBDA e : e.kind = "would save start time")

\* C23: the timestamps do not depend on the resources.  At every moment from
\* the beginning of the scheduling loop on, in runs that complete, fail or
\* never end alike, the cursor, the start marked for each item scheduled so
\* far and the start and end of every assignment are those of the timeline
\* of the items and the calendar, whatever the executors, their occupied
\* intervals, the constraint strings and the dictionary; an item that found
\* no executor takes its whole duration on the cursor.  An Invalid Date of
\* the timeline is an Invalid Date in the run.
C23_TimestampsIndependentOfResources ==
    loopBegun =>
       LET past == {k \in timelineScheduled : k <= rowsGoneThrough}
       IN /\ currentTime = timelineCursor(rowsGoneThrough + 1)
          /\ Len(startMarks) = Cardinality(past)
          /\ \A n \in 1..Len(startMarks) :
                \E k \in past :
                   /\ Cardinality({j \in past : j <= k}) = n
                   /\ startMarks[n].item = itemIdOf(workingProject[visited[k]])
                   /\ startMarks[n].value = formatDateTime(timelineCursor(k))
          /\ \A a \in 1..Len(assignments) :
                \E k \in past :
                   /\ assignments[a].taskId = itemIdOf(workingProject[visited[k]])
                   /\ assignments[a].startTime = timelineCursor(k)
                   /\ assignments[a].endTime = timelineEnd(k)

\* a completed run in which a scheduled item found no executor and the cursor
\* still moved past its duration, and a later item was assigned
C23_Witness ==
    /\ pc = "done"
    /\ \E k \in timelineScheduled :
          /\ \A a \in 1..Len(assignments) :
                assignments[a].taskId # itemIdOf(workingProject[visited[k]])
          /\ timelineEnd(k) # InvalidDate
          /\ timelineEnd(k) > timelineCursor(k)
          /\ currentTime >= timelineEnd(k)
          /\ \E a \in 1..Len(assignments) : assignments[a].startTime >= timelineEnd(k)

(***************************************************************************)
(* Claims about isExecutorAvailable, under SpecAvail.                      *)
(***************************************************************************)
AvailReturned == result.fn = "isExecutorAvailable"

\* the half-open rule of the claim
NoOverlap(candidateStart, candidateEnd, otherStart, otherEnd) ==
    candidateEnd <= otherStart \/ candidateStart >= otherEnd

\* the candidate is a pair of hours, and the hours
CandidateIsHours == call.startHour # NaN /\ call.endHour # NaN
CandidateStart == truncate(call.startHour)
CandidateEnd == truncate(call.endHour)

Scenario4 ==
    /\ call.slots = <<[day |-> AvailDay, startHour |-> 9, endHour |-> 12]>>
    /\ call.currentAssignments = <<>>

\* C9: isExecutorAvailable returns true iff the candidate hours overlap no
\* occupied slot of the resource on the date and no assignment made to the
\* resource that starts on the date (taken from its start hour to the hour of
\* its end); occupied 9-12 rejects 10-11 and accepts 12-13.
C9_AvailableIffNoOverlap ==
    (AvailReturned /\ CandidateIsHours) =>
        /\ result.value =
             (/\ \A i \in 1..Len(call.slots) :
                    call.slots[i].day = getDay(call.date)
                      => NoOverlap(CandidateStart, CandidateEnd,
                                   call.slots[i].startHour, call.slots[i].endHour)
              /\ \A i \in 1..Len(call.currentAssignments) :
                    LET a == call.currentAssignments[i]
                    IN (a.executorId = call.executor.id
                          /\ getDay(a.startTime) = getDay(call.date))
                         => NoOverlap(CandidateStart, CandidateEnd,
                                      (a.startTime % DayMinutes) \div 60,
                                      (a.endTime % DayMinutes) \div 60))
        /\ (Scenario4 /\ CandidateStart = 10 /\ CandidateEnd = 11)
              => result.value = FALSE
        /\ (Scenario4 /\ CandidateStart = 12 /\ CandidateEnd = 13)
              => result.value = TRUE

\* C9 witness: the candidate 12-13 that touches the occupied 9-12 was accepted
C9_Witness ==
    /\ AvailReturned /\ Scenario4
    /\ call.startHour = Num(12) /\ call.endHour = Num(13)
    /\ result.value = TRUE

(***************************************************************************)
(* Claims about matchesParameters, under SpecMatch.                        *)
(***************************************************************************)
MatchReturned == result.fn = "matchesParameters"

\* the level of the resource as a number, when it is recorded as digits
LevelRecorded == call.executor.level # <<>>
LevelNumber == DigitsValue(call.executor.level)

LevelRequirements ==
    {i \in 1..Len(call.requirements) :
        /\ call.requirements[i].id = LevelParameterId
        /\ call.requirements[i].value # Wildcard}

\* what the claim asks of the resource for one level requirement
LevelSatisfies(r) ==
    /\ LevelRecorded
    /\ IF r.ranged
       THEN /\ r.min # <<>> => LevelNumber >= DigitsValue(r.min)
            /\ r.max # <<>> => LevelNumber <= DigitsValue(r.max)
       ELSE LevelNumber = DigitsValue(r.value)

Scenario3 ==
    /\ call.requirements =
         <<[id |-> RoleParameterId, value |-> Senior, ranged |-> FALSE,
            min |-> <<>>, max |-> <<>>],
           [id |-> LevelParameterId, value |-> <<"3">>, ranged |-> TRUE,
            min |-> <<"2">>, max |-> <<"4">>]>>
    /\ Len(call.dictionary) = 2
    /\ call.executor.role = Senior

\* C10 as stated: for every resource, with or without a recorded level, and
\* every parameter dictionary, a resource that matches satisfies every
\* (non-wildcard) level requirement of the list: inside [min, max] when a
\* range is given, equal to the value otherwise.
C10_AsStated ==
    (MatchReturned /\ result.value = TRUE)
        => \A i \in LevelRequirements : LevelSatisfies(call.requirements[i])

\* C10 amended: for a resource with a recorded level and a dictionary that
\* lists parameter 2673, a resource that matches satisfies every non-wildcard
\* level requirement; 115:Senior,2673:3(2-4) accepts {Senior, 3} and rejects
\* {Senior, 5}; a resource without a recorded level, or a dictionary without
\* 2673, is never rejected by a level requirement.
C10_LevelCheckedWhenRecordedAndListed ==
    MatchReturned =>
        /\ (/\ result.value = TRUE /\ LevelRecorded
            /\ inDictionary(call.dictionary, LevelParameterId))
              => \A i \in LevelRequirements : LevelSatisfies(call.requirements[i])
        /\ (Scenario3 /\ call.executor.level = <<"3">>) => result.value = TRUE
        /\ (Scenario3 /\ call.executor.level = <<"5">>) => result.value = FALSE
        /\ (/\ ~LevelRecorded \/ ~inDictionary(call.dictionary, LevelParameterId)
            /\ \A i \in 1..Len(call.requirements) :
                  call.requirements[i].id = LevelParameterId)
              => result.value = TRUE

\* C10 witness: the level-5 resource was rejected by the range 2-4
C10_Witness ==
    /\ MatchReturned /\ Scenario3
    /\ call.executor.level = <<"5">>
    /\ result.value = FALSE

RoleRecorded == call.executor.role # <<>>

\* the role requirements of the list that name a role
RoleRequirements ==
    {i \in 1..Len(call.requirements) :
        /\ call.requirements[i].id = RoleParameterId
        /\ call.requirements[i].value # Wildcard}

RoleDiffers == \E i \in RoleRequirements : call.requirements[i].value # call.executor.role

\* C11 as stated: a resource with a role is rejected whenever a role
\* requirement that is not the wildcard names another role, whatever the
\* other requirements and whatever the parameter dictionary holds.
C11_AsStated ==
    (MatchReturned /\ RoleRecorded /\ RoleDiffers) => result.value = FALSE

\* C11 amended: under a dictionary that lists parameter 115, a resource with
\* a role is rejected whenever a non-wildcard role requirement names another
\* role, whatever the other requirements; a resource without a role, or any
\* resource under a dictionary without 115, is never rejected by a role
\* requirement; a single failing requirement anywhere in the list rejects.
C11_RoleCheckedWhenListed ==
    MatchReturned =>
        /\ (RoleRecorded /\ RoleDiffers /\ inDictionary(call.dictionary, RoleParameterId))
              => result.value = FALSE
        /\ (/\ ~RoleRecorded \/ ~inDictionary(call.dictionary, RoleParameterId)
            /\ \A i \in 1..Len(call.requirements) :
                  call.requirements[i].id = RoleParameterId)
              => result.value = TRUE
        /\ result.value = TRUE
              => \A i \in 1..Len(call.requirements) :
                    ~paramFails(call.executor,
                                parseParameters(call.paramStr)[i], call.dictionary)

\* C11 witness: a Junior was rejected by a role requirement for Senior that
\* comes second in the list, after a requirement the resource satisfies
C11_Witness ==
    /\ MatchReturned
    /\ Len(call.requirements) = 2
    /\ call.requirements[1].id = OtherParameterId
    /\ call.requirements[2].id = RoleParameterId
    /\ call.requirements[2].value = Senior
    /\ call.executor.role = Junior
    /\ inDictionary(call.dictionary, RoleParameterId)
    /\ result.value = FALSE

(***************************************************************************)
(* Claims about the date texts, under SpecDate.                            *)
(***************************************************************************)
DateParsed == result.fn = "parseDate"

\* C15: parsing the text that formatDateTime wrote for a valid timestamp
\* gives the timestamp again, at midnight or not.
C15_AsStated == DateParsed => result.value = call.date

\* what parseDate gives instead: midnight of the calendar day of the text,
\* which is the timestamp exactly when the timestamp is a midnight.
\* 21.11.2025 09:00 is written "21.11.2025 09:00:00" and read back as
\* 21.11.2025 00:00.
RoundTripKeepsTheDayOnly ==
    DateParsed =>
        /\ result.value = call.date - (call.date % DayMinutes)
        /\ (result.value = call.date) <=> (call.date % DayMinutes = 0)
        /\ Len(result.text) = 19
        /\ call.date = at(AvailDay, 9, 0) =>
              result.text = <<"2", "1", ".", "1", "1", ".", "2", "0", "2", "5", " ",
                              "0", "9", ":", "0", "0", ":", "0", "0">>
        /\ call.date = at(365, 0, 0) =>
              result.text = <<"0", "1", ".", "0", "1", ".", "2", "0", "2", "6", " ",
                              "0", "0", ":", "0", "0", ":", "0", "0">>

(***************************************************************************)
(* Claims about the termination of calculateEndTime, under SpecCalcAny.    *)
(***************************************************************************)

\* the clock and the remaining minutes after the given number of rounds of
\* the loop on valid Dates
RECURSIVE calcAfter(_, _, _, _, _, _)
calcAfter(cur, rem, ds, de, ls, rounds) ==
    IF rounds = 0 \/ ~gt(rem, Zero) THEN [cur |-> cur, rem |-> rem]
    ELSE LET n == calcStep(cur, rem, ds, de, ls)
         IN calcAfter(n.cur, n.rem, ds, de, ls, rounds - 1)

\* the loop comes back to where it is: minutes remain, and some rounds later
\* the clock is (when sameInstant) at the same instant, or (when not) at the
\* same time of another day, with the same minutes remaining
calcComesBack(cur, rem, s, sameInstant) ==
    /\ gt(rem, Zero)
    /\ \E rounds \in 1..MaxIter :
          LET n == calcAfter(cur, rem, calcDayStart(s), calcDayEnd(s),
                             calcLunchStart(s), rounds)
          IN /\ n.rem = rem
             /\ minuteOfDay(n.cur) = minuteOfDay(cur)
             /\ (n.cur = cur) <=> sameInstant

\* the call comes, within MaxIter rounds, to a point the loop comes back to
calcReaches(sameInstant) ==
    \E rounds \in 0..MaxIter :
        LET s == call.settings
            n == calcAfter(call.startTime, call.durationMinutes, calcDayStart(s),
                           calcDayEnd(s), calcLunchStart(s), rounds)
        IN calcComesBack(n.cur, n.rem, s, sameInstant)

\* a call that never returns has come to a round that leaves the instant of
\* the clock, date included, and the remaining minutes as they are
RunningIsEndless ==
    (call.fn = "calculateEndTime" /\ result = NeverReturns) => calcReaches(TRUE)

\* a call on a valid Date that returns an Invalid Date has come to rounds
\* that move only the date of the clock, and never to an instant the loop
\* comes back to
InvalidIsDrift ==
    (call.fn = "calculateEndTime" /\ CalcReturned /\ result.value = InvalidDate)
        => (calcReaches(FALSE) /\ ~calcReaches(TRUE))

\* C24: calculateEndTime returns after finitely many iterations for every
\* positive duration, every start and every calendar read from the settings,
\* a day start at or after the day end and a lunch hour outside the working
\* day included.
C24_AlwaysReturns ==
    (call.fn = "calculateEndTime" /\ result # NoResult
       /\ gt(call.durationMinutes, Zero)) => CalcReturned

====
